---- MODULE Spec2Model ----
(***************************************************************************)
(* Iterative-deepening negamax search of the Janus chess engine            *)
(* (engine/search.py) with its snapshot throttle                           *)
(* (engine/instrumentation.py).                                            *)
(*                                                                         *)
(* The search sees a position only through generate_legal_moves, in_check, *)
(* evaluate, evaluate_detailed, the three move fields read by              *)
(* _move_order_key, Move.uci and Board.make_move / unmake_move.  The model *)
(* therefore runs the search on a small game graph (PositionTable) whose   *)
(* nodes carry exactly those observations; the control flow of search,     *)
(* _search_root, _negamax, _check_timeout and SnapshotThrottle.emit is     *)
(* modelled statement by statement, with an explicit call stack and a      *)
(* clock that may advance before every perf_counter() read.                *)
(*                                                                         *)
(* Time is counted in milliseconds.  Scores are centipawns; the float      *)
(* "eval" fields (round(score / 100.0, 2)) are kept in hundredths of a     *)
(* pawn.                                                                   *)
(***************************************************************************)
EXTENDS Integers, Sequences, FiniteSets, TLC

(***************************************************************************)
(* Bounds of the model.                                                    *)
(***************************************************************************)
\* largest max_depth argument tried
MaxDepth == 3
\* the clock stops advancing at this reading
MaxClock == 2
\* largest time_limit_ms argument tried (beyond MaxClock: never reached)
MaxTimeLimit == 3
\* largest snapshot_interval_ms argument tried
MaxInterval == 2
\* number of emit calls in the stand-alone throttle specification
MaxEmits == 4
\* number of requests on one websocket connection
MaxRequests == 2
\* largest number of snapshots one search hands to on_snapshot
MaxSnapshots == 2
\* number of moves played from a test position
MaxPlies == 1
\* longest principal variation handed to _compose_heatmap
MaxPv == 9
\* largest number of root candidates handed to _compose_heatmap
MaxCandidates == 11
\* number of successive search calls made on one SearchEngine
MaxCalls == 2

(***************************************************************************)
(* Program constants.                                                      *)
(***************************************************************************)
PIECE_NONE == -1
MATE == 100000
CAPTURE_BONUS == 10000
PROMOTION_BONUS == 8000
CASTLE_BONUS == 100

Max(a, b) == IF a >= b THEN a ELSE b

\* Optional values: None is the empty sequence, Some(x) a one-element one.
None == <<>>
Some(x) == <<x>>

(***************************************************************************)
(* The game graph.  Even positions have White to move, odd ones Black.     *)
(* check/eval are what in_check(board, side_to_move) and evaluate(board)   *)
(* return in the position; moves is the list generate_legal_moves returns, *)
(* in generation order.                                                    *)
(***************************************************************************)
Mv(uci, to, captured, promotion, is_castle) ==
    [uci |-> uci, to |-> to, captured |-> captured,
     promotion |-> promotion, is_castle |-> is_castle]

PositionTable ==
    << \* 0: White is checkmated
       [check |-> TRUE, eval |-> -900, moves |-> <<>>],
       \* 1: Black is checkmated
       [check |-> TRUE, eval |-> -500, moves |-> <<>>],
       \* 2: White is stalemated
       [check |-> FALSE, eval |-> -300, moves |-> <<>>],
       \* 3: Black, quiet position
       [check |-> FALSE, eval |-> 10,
        moves |-> << Mv("g8f6", 4, PIECE_NONE, PIECE_NONE, FALSE),
                     Mv("d5e4", 6, 0, PIECE_NONE, FALSE) >>],
       \* 4: White, can promote with mate
       [check |-> FALSE, eval |-> 40,
        moves |-> << Mv("g1f3", 3, PIECE_NONE, PIECE_NONE, FALSE),
                     Mv("e1e2", 5, PIECE_NONE, PIECE_NONE, FALSE),
                     Mv("a7a8q", 1, PIECE_NONE, 4, FALSE) >>],
       \* 5: Black, in check with three replies, one of them mate
       [check |-> TRUE, eval |-> -60,
        moves |-> << Mv("e8d8", 2, PIECE_NONE, PIECE_NONE, FALSE),
                     Mv("e8f8", 4, PIECE_NONE, PIECE_NONE, FALSE),
                     Mv("d8h4", 0, 0, PIECE_NONE, FALSE) >>],
       \* 6: White, may castle
       [check |-> FALSE, eval |-> -30,
        moves |-> << Mv("b1c3", 7, PIECE_NONE, PIECE_NONE, FALSE),
                     Mv("e1g1", 5, PIECE_NONE, PIECE_NONE, TRUE) >>],
       \* 7: Black
       [check |-> FALSE, eval |-> 25,
        moves |-> << Mv("b8c6", 6, PIECE_NONE, PIECE_NONE, FALSE),
                     Mv("c6d4", 4, 6, PIECE_NONE, FALSE) >>],
       \* 8: White, whose only move allows mate
       [check |-> FALSE, eval |-> 5,
        moves |-> << Mv("g2g4", 5, PIECE_NONE, PIECE_NONE, FALSE) >>],
       \* 9: Black is stalemated
       [check |-> FALSE, eval |-> -700, moves |-> <<>>],
       \* 10: White, can mate, or allow replies of which the one searched
       \* first is not the best
       [check |-> FALSE, eval |-> 15,
        moves |-> << Mv("d1h5", 1, PIECE_NONE, PIECE_NONE, FALSE),
                     Mv("b1a3", 7, PIECE_NONE, PIECE_NONE, FALSE) >>] >>

Positions == 0 .. (Len(PositionTable) - 1)
\* the positions a search is started from; the others are met below them
RootPositions == {0, 1, 2, 3, 7, 8, 9, 10}
Node(pos) == PositionTable[pos + 1]

(***************************************************************************)
(* Board: the position, the side to move and the undo stack.               *)
(***************************************************************************)
opposite(side) == 1 - side

NewBoard(pos) == [pos |-> pos, side_to_move |-> pos % 2, history |-> <<>>]

MakeMove(b, move) ==
    [pos |-> move.to,
     side_to_move |-> opposite(b.side_to_move),
     history |-> Append(b.history, [move |-> move, pos |-> b.pos])]

UnmakeMove(b) ==
    [pos |-> b.history[Len(b.history)].pos,
     side_to_move |-> opposite(b.side_to_move),
     history |-> SubSeq(b.history, 1, Len(b.history) - 1)]

generate_legal_moves(b) == Node(b.pos).moves
in_check(b, side) == Node(b.pos).check
evaluate(b) == Node(b.pos).eval

evaluate_detailed(b) ==
    [score_cp |-> Node(b.pos).eval,
     piece_values |-> <<"piece_values", b.pos>>,
     piece_breakdown |-> <<"piece_breakdown", b.pos>>,
     heatmap |-> <<"heatmap", b.pos>>]

\* variant: the mate score does not depend on the ply
terminal_score_NoPly(side_to_move_in_check, ply) ==
    IF side_to_move_in_check THEN -MATE ELSE 0

terminal_score(side_to_move_in_check, ply) ==
    IF side_to_move_in_check THEN -MATE + ply ELSE 0

(***************************************************************************)
(* Move ordering: sorted(moves, key=_move_order_key, reverse=True).        *)
(* Python's sort is stable, also with reverse=True.                        *)
(***************************************************************************)
_move_order_key(move) ==
    (IF move.captured # PIECE_NONE THEN CAPTURE_BONUS ELSE 0)
    + (IF move.promotion # PIECE_NONE THEN PROMOTION_BONUS ELSE 0)
    + (IF move.is_castle THEN CASTLE_BONUS ELSE 0)

\* stable insertion of x into a sequence sorted by descending key
RECURSIVE InsertDesc(_, _, _)
InsertDesc(s, x, kx) ==
    IF s = <<>> THEN <<x>>
    ELSE IF kx > s[1].k THEN <<x>> \o s
    ELSE <<s[1]>> \o InsertDesc(Tail(s), x, kx)

RECURSIVE SortDescKeyed(_)
SortDescKeyed(s) ==
    IF s = <<>> THEN <<>>
    ELSE LET rest == SortDescKeyed(SubSeq(s, 1, Len(s) - 1))
             last == s[Len(s)]
         IN  InsertDesc(rest, last, last.k)

OrderMoves(moves) ==
    LET keyed == [i \in 1 .. Len(moves) |->
                     [k |-> _move_order_key(moves[i]), v |-> moves[i]]]
        srt == SortDescKeyed(keyed)
    IN  [i \in 1 .. Len(srt) |-> srt[i].v]

SortCandidates_SearchOrder(cands) == cands

SortCandidates(cands) ==
    LET keyed == [i \in 1 .. Len(cands) |-> [k |-> cands[i].score, v |-> cands[i]]]
        srt == SortDescKeyed(keyed)
    IN  [i \in 1 .. Len(srt) |-> srt[i].v]

(***************************************************************************)
(* Result and snapshot records.                                            *)
(***************************************************************************)
\* round(score / 100.0, 2), in hundredths of a pawn
EvalOf(score) == score

\* The nps field (nodes per second, derived from nodes and elapsed_ms) is
\* not carried by the records of the model.

Uci(line) == [i \in 1 .. Len(line) |-> line[i].uci]

\* {item.move: item.eval for item in candidates}, in insertion order
CandidateMoves(cands) == [i \in 1 .. Len(cands) |-> <<cands[i].move, cands[i].eval>>]

\* _compose_heatmap(static, candidate_moves, pv): the overlay is a function
\* of the candidate ranking and the PV, summed onto the static heatmap
_compose_heatmap(static_heatmap, candidate_moves, pv) ==
    [static |-> static_heatmap, candidate_moves |-> candidate_moves, pv |-> pv]

CandidateScore(move, score) == [move |-> move, score |-> score, eval |-> EvalOf(score)]

InitialResult(re) ==
    [best_move |-> None, score |-> 0, eval |-> 0, depth |-> 0, pv |-> <<>>,
     nodes |-> 0, elapsed_ms |-> 0, cutoffs |-> 0,
     current_move |-> "", candidates |-> <<>>, candidate_moves |-> <<>>,
     piece_values |-> re.piece_values,
     piece_breakdown |-> re.piece_breakdown,
     heatmap |-> re.heatmap]

\* search(), lines 102-123: the result of a completed iteration; r is the
\* tuple _search_root returned
IterationResult(r, d, n, c, elapsed_ms, re) ==
    [best_move |-> r.best_move, score |-> r.score, eval |-> EvalOf(r.score),
     depth |-> d, pv |-> r.pv, nodes |-> n, elapsed_ms |-> elapsed_ms,
     cutoffs |-> c,
     current_move |-> r.current_move, candidates |-> r.candidates,
     candidate_moves |-> CandidateMoves(r.candidates),
     piece_values |-> re.piece_values,
     piece_breakdown |-> re.piece_breakdown,
     heatmap |-> _compose_heatmap(re.heatmap, CandidateMoves(r.candidates), Uci(r.pv))]

_to_snapshot(result) ==
    [depth |-> result.depth, nodes |-> result.nodes,
     current_move |-> result.current_move, pv |-> Uci(result.pv),
     eval |-> result.eval, eval_cp |-> result.score,
     candidate_moves |-> result.candidate_moves,
     piece_values |-> result.piece_values,
     piece_breakdown |-> result.piece_breakdown,
     heatmap |-> result.heatmap, cutoffs |-> result.cutoffs,
     elapsed_ms |-> result.elapsed_ms]

\* variant: the candidates are reported in the order searched
ProgressSnapshot_SearchOrder(d, n, c, elapsed_ms, current_move, best_score, best_pv, cands, re) ==
    LET cm == CandidateMoves(cands) IN
    [depth |-> d, nodes |-> n,
     current_move |-> current_move, pv |-> Uci(best_pv),
     eval |-> EvalOf(best_score), eval_cp |-> best_score,
     candidate_moves |-> cm,
     piece_values |-> re.piece_values,
     piece_breakdown |-> re.piece_breakdown,
     heatmap |-> _compose_heatmap(re.heatmap, cm, Uci(best_pv)),
     cutoffs |-> c, elapsed_ms |-> elapsed_ms]

\* _search_root, lines 178-198: the progress snapshot after a root move
ProgressSnapshot(d, n, c, elapsed_ms, current_move, best_score, best_pv, cands, re) ==
    LET cm == CandidateMoves(SortCandidates(cands)) IN
    [depth |-> d, nodes |-> n,
     current_move |-> current_move, pv |-> Uci(best_pv),
     eval |-> EvalOf(best_score), eval_cp |-> best_score,
     candidate_moves |-> cm,
     piece_values |-> re.piece_values,
     piece_breakdown |-> re.piece_breakdown,
     heatmap |-> _compose_heatmap(re.heatmap, cm, Uci(best_pv)),
     cutoffs |-> c, elapsed_ms |-> elapsed_ms]

(***************************************************************************)
(* SnapshotThrottle.                                                       *)
(***************************************************************************)
\* variant: the interval is not raised to at least 1 ms
SnapshotThrottle_NoFloor(interval_ms, callback) ==
    [interval |-> interval_ms, callback |-> callback, next_emit_at |-> 0]

SnapshotThrottle(interval_ms, callback) ==
    [interval |-> Max(1, interval_ms), callback |-> callback, next_emit_at |-> 0]

\* variant: a forced emit is throttled like any other
ShouldEmit_IgnoreForce(th, force, t) == t >= th.next_emit_at

\* the condition of line 43, at clock reading t
ShouldEmit(th, force, t) == force \/ t >= th.next_emit_at

\* the throttle after an emit call that read the clock at t
AfterEmit(th, force, t) ==
    IF ShouldEmit(th, force, t)
    THEN [th EXCEPT !.next_emit_at = t + th.interval]
    ELSE th

(***************************************************************************)
(* State.                                                                  *)
(***************************************************************************)
VARIABLES
    board,        \* the caller's Board, borrowed by search
    now,          \* the reading of perf_counter(), in ms
    nodes,        \* SearchEngine.nodes
    cutoffs,      \* SearchEngine.cutoffs
    deadline,     \* SearchEngine._deadline
    start,        \* SearchEngine._start
    pc,           \* where the call of search stands
    args,         \* the arguments of the call
    root_eval,    \* local of search: evaluate_detailed(board) at entry
    throttler,    \* local of search: the SnapshotThrottle
    best_result,  \* local of search
    depth,        \* loop variable of search
    stack,        \* the frames of _search_root and _negamax, innermost last
    ret,          \* the value a frame has just returned to its caller
    outcome,      \* what the call delivered: a result or an exception
    snapshots,    \* the arguments on_snapshot was called with, in order
    iterations,   \* the arguments on_iteration was called with, in order
    entry,        \* history: board and engine fields when search was called
    completed,    \* history: what each completed _search_root call returned
    aborted,      \* history: "" or the function whose _check_timeout raised
    makes,        \* history: number of make_move calls made by the search
    unmakes,      \* history: number of unmake_move calls made by the search
    emits,        \* history: number of emit calls made on a stand-alone throttle
    payload,      \* websocket route: the request being served
    event_queue,  \* websocket route: the asyncio.Queue of the request
    ready,        \* websocket route: the callbacks the event loop has yet to run
    worker,       \* websocket route: where the task run_search stands
    thread,       \* websocket route: where the thread of engine.search stands
    item,         \* websocket route: the item taken from event_queue
    sent,         \* history: the messages sent for the request being served
    served,       \* history: number of requests received on the connection
    pseudo,       \* generate_legal_moves: the pseudo-legal moves being filtered
    idx,          \* generate_legal_moves: the index of the move at hand
    legal_moves,  \* generate_legal_moves: the moves kept so far
    ordered,      \* the legal moves as sorted by the search
    report,       \* the details evaluate_detailed returned for the position
    plies,        \* history: number of moves played on the board
    static_input,     \* heatmap: the static_heatmap argument
    candidates_input, \* heatmap: the candidates of a root search, as searched
    pv_input,         \* heatmap: the principal variation, in UCI notation
    heatmap_out,      \* heatmap: what _compose_heatmap returned
    calls,        \* history: number of calls of search the engine has served
    visited,      \* history: number of nodes _negamax counted in this call
    pruned        \* history: number of beta cutoffs taken in this call

engine == <<nodes, cutoffs, deadline, start>>
\* the variables a call of search never touches
ws == <<payload, event_queue, ready, worker, thread, item, sent, served>>
mg == <<pseudo, idx, legal_moves, ordered, report, plies>>
hm == <<static_input, candidates_input, pv_input, heatmap_out>>
work == <<visited, pruned>>
apart == <<emits, ws, mg, hm, calls>>
aside == <<apart, work>>
locals == <<root_eval, throttler, best_result, depth>>
vars == <<board, now, nodes, cutoffs, deadline, start, pc, args, root_eval,
          throttler, best_result, depth, stack, ret, outcome, snapshots,
          iterations, entry, completed, aborted, makes, unmakes, emits,
          payload, event_queue, ready, worker, thread, item, sent, served,
          pseudo, idx, legal_moves, ordered, report, plies,
          static_input, candidates_input, pv_input, heatmap_out,
          calls, visited, pruned>>

NoPayload == <<>>

\* no websocket connection
NoConnection ==
    /\ payload = NoPayload /\ event_queue = <<>> /\ ready = <<>>
    /\ worker = "none" /\ thread = "none" /\ item = None
    /\ sent = <<>> /\ served = 0

\* no move generation under way
NoGeneration ==
    /\ pseudo = <<>> /\ idx = 0 /\ legal_moves = <<>> /\ ordered = <<>>
    /\ report = None /\ plies = 0

\* no heatmap being composed
NoHeatmap ==
    /\ static_input = <<>> /\ candidates_input = <<>> /\ pv_input = <<>>
    /\ heatmap_out = None

\* an engine that has served no call
NoCalls == calls = 0 /\ visited = 0 /\ pruned = 0

NoArgs == [max_depth |-> 0, time_limit_ms |-> 0, on_iteration |-> FALSE,
           on_snapshot |-> FALSE, snapshot_interval_ms |-> 0]

\* SearchEngine.__init__ and a Board built by the caller
Init ==
    /\ board \in {NewBoard(p) : p \in RootPositions}
    /\ now = 0
    /\ nodes = 0 /\ cutoffs = 0 /\ deadline = 0 /\ start = 0
    /\ pc = "idle"
    /\ args = NoArgs
    /\ root_eval = None /\ throttler = None /\ best_result = None /\ depth = 0
    /\ stack = <<>> /\ ret = None
    /\ outcome = [kind |-> "none"]
    /\ snapshots = <<>> /\ iterations = <<>>
    /\ entry = None /\ completed = <<>> /\ aborted = ""
    /\ makes = 0 /\ unmakes = 0 /\ emits = 0
    /\ NoConnection
    /\ NoGeneration
    /\ NoHeatmap
    /\ NoCalls

\* perf_counter(): a monotone clock that may have advanced since last read
ClockReadings(t) == {u \in t .. t + 1 : u <= MaxClock}

\* variant: the deadline itself is still in time
_check_timeout_Strict(t) == t > deadline

\* _check_timeout, lines 237-239, at clock reading t
_check_timeout(t) == t >= deadline

\* variant: the time left until the deadline
ElapsedMs_Remaining(t) == deadline - t

\* (perf_counter() - self._start) * 1000.0 at clock reading t, lines 102, 178
ElapsedMs(t) == t - start

\* variant: max_depth = 0 is accepted
InvalidArguments_Negative(max_depth) == max_depth < 0

\* the argument check of line 62
InvalidArguments(max_depth) == max_depth < 1

\* variant: range(1, max_depth)
InRange_Short(d, max_depth) == 1 <= d /\ d < max_depth

\* range(1, max_depth + 1), line 91: is d in the range
InRange(d, max_depth) == 1 <= d /\ d < max_depth + 1

\* variant: the counters of the result are refreshed on return
ReturnedResult_LiveCounters ==
    [best_result EXCEPT !.nodes = nodes, !.cutoffs = cutoffs]

\* the value of line 132
ReturnedResult == best_result

\* _SearchTimeout unwinds every frame up to the except clause of search
\* (lines 99-100), which leaves the loop
RaiseTimeout(fn) ==
    /\ stack' = <<>>
    /\ ret' = None
    /\ pc' = "return"
    /\ aborted' = fn

Top == stack[Len(stack)]
Below == SubSeq(stack, 1, Len(stack) - 1)

RootFrame(d, moves) ==
    [fn |-> "root", depth |-> d, alpha |-> -MATE, beta |-> MATE, ply |-> 0,
     moves |-> moves, i |-> 1, best_score |-> -MATE, best_move |-> None,
     best_line |-> <<>>, candidates |-> <<>>, current_move |-> "",
     st |-> "loop"]

\* variant: the child is searched in the window (-alpha, -beta)
NegamaxFrame_WindowSwapped(d, alpha, beta, ply) ==
    [fn |-> "negamax", depth |-> d, alpha |-> beta, beta |-> alpha, ply |-> ply,
     moves |-> <<>>, i |-> 1, best_score |-> -MATE, best_move |-> None,
     best_line |-> <<>>, candidates |-> <<>>, current_move |-> "",
     st |-> "enter"]

NegamaxFrame(d, alpha, beta, ply) ==
    [fn |-> "negamax", depth |-> d, alpha |-> alpha, beta |-> beta, ply |-> ply,
     moves |-> <<>>, i |-> 1, best_score |-> -MATE, best_move |-> None,
     best_line |-> <<>>, candidates |-> <<>>, current_move |-> "",
     st |-> "enter"]

\* variant: the node and cutoff counters run on from the earlier calls
ResetCounters_KeepsTotals(t, time_limit_ms) ==
    /\ nodes' = nodes
    /\ cutoffs' = cutoffs
    /\ start' = t
    /\ deadline' = t + time_limit_ms

\* search, lines 65-68, with t the reading of perf_counter()
ResetCounters(t, time_limit_ms) ==
    /\ nodes' = 0
    /\ cutoffs' = 0
    /\ start' = t
    /\ deadline' = t + time_limit_ms

(***************************************************************************)
(* search, lines 62-89.                                                    *)
(***************************************************************************)
Search(max_depth, time_limit_ms, on_iteration, on_snapshot, snapshot_interval_ms) ==
    /\ pc = "idle"
    /\ args' = [max_depth |-> max_depth, time_limit_ms |-> time_limit_ms,
                on_iteration |-> on_iteration, on_snapshot |-> on_snapshot,
                snapshot_interval_ms |-> snapshot_interval_ms]
    /\ entry' = Some([board |-> board, engine |-> engine, now |-> now])
    /\ IF InvalidArguments(max_depth)
       THEN /\ pc' = "raised"
            /\ outcome' = [kind |-> "ValueError"]
            /\ UNCHANGED <<board, now, engine, locals, stack, ret, snapshots,
                           iterations, completed, aborted, makes, unmakes>>
            /\ UNCHANGED work
       ELSE \E t \in ClockReadings(now) :
            /\ now' = t
            /\ ResetCounters(t, time_limit_ms)
            /\ root_eval' = evaluate_detailed(board)
            /\ throttler' = SnapshotThrottle(snapshot_interval_ms, on_snapshot)
            /\ best_result' = InitialResult(evaluate_detailed(board))
            /\ depth' = 1
            /\ pc' = IF InRange(1, max_depth) THEN "call_root" ELSE "return"
            /\ visited' = 0 /\ pruned' = 0
            /\ UNCHANGED <<board, stack, ret, outcome, snapshots, iterations,
                           completed, aborted, makes, unmakes>>
    /\ UNCHANGED apart

(***************************************************************************)
(* _search_root, lines 141-157.                                            *)
(***************************************************************************)
SearchRootEnter ==
    /\ pc = "call_root"
    /\ \E t \in ClockReadings(now) :
       /\ now' = t
       /\ IF _check_timeout(t)
          THEN RaiseTimeout("root")
          ELSE LET moves == generate_legal_moves(board) IN
               /\ aborted' = aborted
               /\ IF moves = <<>>
                  THEN /\ ret' = Some([score |-> terminal_score(
                                           in_check(board, board.side_to_move), 0),
                                       best_move |-> None, pv |-> <<>>,
                                       candidates |-> <<>>, current_move |-> ""])
                       /\ pc' = "iter_done"
                       /\ stack' = <<>>
                  ELSE /\ stack' = <<RootFrame(depth, OrderMoves(moves))>>
                       /\ pc' = "run"
                       /\ ret' = None
    /\ UNCHANGED <<board, engine, args, locals, outcome, snapshots, iterations,
                   entry, completed, makes, unmakes>>
    /\ UNCHANGED aside

(***************************************************************************)
(* _search_root, lines 159-164: the next root move is made and searched.   *)
(***************************************************************************)
RootMove ==
    /\ pc = "run"
    /\ Top.fn = "root" /\ Top.st = "loop"
    /\ \E t \in ClockReadings(now) :
       /\ now' = t
       /\ IF _check_timeout(t)
          THEN /\ RaiseTimeout("root")
               /\ UNCHANGED <<board, makes>>
          ELSE LET f == Top
                   move == f.moves[f.i] IN
               /\ board' = MakeMove(board, move)
               /\ makes' = makes + 1
               /\ stack' = << [f EXCEPT !.current_move = move.uci, !.st = "wait"],
                              NegamaxFrame(f.depth - 1, -f.beta, -f.alpha, 1) >>
               /\ UNCHANGED <<ret, pc, aborted>>
    /\ UNCHANGED <<engine, args, locals, outcome, snapshots, iterations,
                   entry, completed, unmakes>>
    /\ UNCHANGED aside

(***************************************************************************)
(* _negamax, lines 205-216: entry of a node.                               *)
(***************************************************************************)
NegamaxEnter ==
    /\ pc = "run"
    /\ Top.fn = "negamax" /\ Top.st = "enter"
    /\ \E t \in ClockReadings(now) :
       /\ now' = t
       /\ IF _check_timeout(t)
          THEN /\ RaiseTimeout("negamax")
               /\ UNCHANGED <<nodes, visited>>
          ELSE LET f == Top
                   moves == generate_legal_moves(board) IN
               /\ nodes' = nodes + 1
               /\ visited' = visited + 1
               /\ UNCHANGED <<pc, aborted>>
               /\ IF f.depth = 0
                  THEN /\ ret' = Some([score |-> evaluate(board), line |-> <<>>])
                       /\ stack' = Below
                  ELSE IF moves = <<>>
                  THEN /\ ret' = Some([score |-> terminal_score(
                                           in_check(board, board.side_to_move), f.ply),
                                       line |-> <<>>])
                       /\ stack' = Below
                  ELSE /\ ret' = None
                       /\ stack' = Append(Below, [f EXCEPT !.moves = OrderMoves(moves),
                                                           !.st = "loop"])
    /\ UNCHANGED <<board, cutoffs, deadline, start, args, locals, outcome,
                   snapshots, iterations, entry, completed, makes, unmakes>>
    /\ UNCHANGED <<apart, pruned>>

(***************************************************************************)
(* _negamax, lines 218-220: the next move is made and searched.            *)
(***************************************************************************)
NegamaxMove ==
    /\ pc = "run"
    /\ Top.fn = "negamax" /\ Top.st = "loop"
    /\ LET f == Top
           move == f.moves[f.i] IN
       /\ board' = MakeMove(board, move)
       /\ makes' = makes + 1
       /\ stack' = Below \o << [f EXCEPT !.st = "wait"],
                               NegamaxFrame(f.depth - 1, -f.beta, -f.alpha, f.ply + 1) >>
    /\ UNCHANGED <<now, engine, pc, args, locals, ret, outcome, snapshots,
                   iterations, entry, completed, aborted, unmakes>>
    /\ UNCHANGED aside

(***************************************************************************)
(* _negamax, lines 221-235: the child has returned.                        *)
(***************************************************************************)
NegamaxResume ==
    /\ pc = "run"
    /\ Top.fn = "negamax" /\ Top.st = "wait" /\ Len(ret) = 1
    /\ LET f == Top
           move == f.moves[f.i]
           score == -(ret[1].score)
           better == score > f.best_score
           best_score == IF better THEN score ELSE f.best_score
           best_line == IF better THEN <<move>> \o ret[1].line ELSE f.best_line
           alpha == IF score > f.alpha THEN score ELSE f.alpha
           cut == alpha >= f.beta IN
       /\ board' = UnmakeMove(board)
       /\ unmakes' = unmakes + 1
       /\ cutoffs' = IF cut THEN cutoffs + 1 ELSE cutoffs
       /\ pruned' = IF cut THEN pruned + 1 ELSE pruned
       /\ IF cut \/ f.i = Len(f.moves)
          THEN /\ ret' = Some([score |-> best_score, line |-> best_line])
               /\ stack' = Below
          ELSE /\ ret' = None
               /\ stack' = Append(Below, [f EXCEPT !.best_score = best_score,
                                                   !.best_line = best_line,
                                                   !.alpha = alpha,
                                                   !.i = f.i + 1,
                                                   !.st = "loop"])
    /\ UNCHANGED <<now, nodes, deadline, start, pc, args, locals, outcome,
                   snapshots, iterations, entry, completed, aborted, makes>>
    /\ UNCHANGED <<apart, visited>>

(***************************************************************************)
(* SnapshotThrottle.emit as called by search: the clock is read only when  *)
(* there is a callback; t is that reading.                                 *)
(***************************************************************************)
EmitReadings(t) == IF throttler.callback THEN ClockReadings(t) ELSE {t}

Emit(snapshot, force, t) ==
    /\ now' = t
    /\ IF throttler.callback
       THEN /\ throttler' = AfterEmit(throttler, force, t)
            /\ snapshots' = IF ShouldEmit(throttler, force, t)
                            THEN Append(snapshots, [s |-> snapshot, force |-> force])
                            ELSE snapshots
       ELSE UNCHANGED <<throttler, snapshots>>

(***************************************************************************)
(* _search_root, lines 165-202: the child of a root move has returned.     *)
(***************************************************************************)
RootResume ==
    /\ pc = "run"
    /\ Top.fn = "root" /\ Top.st = "wait" /\ Len(ret) = 1
    /\ LET f == Top
           move == f.moves[f.i]
           score == -(ret[1].score)
           cands == Append(f.candidates, CandidateScore(f.current_move, score))
           better == score > f.best_score
           best_score == IF better THEN score ELSE f.best_score
           best_move == IF better THEN Some(move) ELSE f.best_move
           best_pv == IF better THEN <<move>> \o ret[1].line ELSE f.best_line
           alpha == IF score > f.alpha THEN score ELSE f.alpha IN
       /\ board' = UnmakeMove(board)
       /\ unmakes' = unmakes + 1
       /\ \E t1 \in ClockReadings(now) : \E t2 \in EmitReadings(t1) :
            Emit(ProgressSnapshot(f.depth, nodes, cutoffs, ElapsedMs(t1),
                                  f.current_move, best_score, best_pv, cands,
                                  root_eval),
                 FALSE, t2)
       /\ IF f.i = Len(f.moves)
          THEN /\ ret' = Some([score |-> best_score, best_move |-> best_move,
                               pv |-> best_pv, candidates |-> SortCandidates(cands),
                               current_move |-> f.current_move])
               /\ stack' = <<>>
               /\ pc' = "iter_done"
          ELSE /\ ret' = None
               /\ stack' = << [f EXCEPT !.best_score = best_score,
                                        !.best_move = best_move,
                                        !.best_line = best_pv,
                                        !.candidates = cands,
                                        !.alpha = alpha,
                                        !.i = f.i + 1,
                                        !.st = "loop"] >>
               /\ pc' = "run"
    /\ UNCHANGED <<engine, args, root_eval, best_result, depth, outcome,
                   iterations, entry, completed, aborted, makes>>
    /\ UNCHANGED aside

(***************************************************************************)
(* search, lines 102-130, and the step of the loop of line 91.             *)
(***************************************************************************)
IterationComplete ==
    /\ pc = "iter_done"
    /\ \E t1 \in ClockReadings(now) : \E t2 \in EmitReadings(t1) :
       LET r == IterationResult(ret[1], depth, nodes, cutoffs, ElapsedMs(t1), root_eval) IN
       /\ best_result' = r
       /\ iterations' = IF args.on_iteration THEN Append(iterations, r) ELSE iterations
       /\ Emit(_to_snapshot(r), TRUE, t2)
    /\ completed' = Append(completed,
                           [depth |-> depth, score |-> ret[1].score,
                            best_move |-> ret[1].best_move, pv |-> ret[1].pv,
                            candidates |-> ret[1].candidates,
                            current_move |-> ret[1].current_move,
                            nodes |-> nodes, cutoffs |-> cutoffs,
                            visited |-> visited, pruned |-> pruned])
    /\ ret' = None
    /\ depth' = depth + 1
    /\ pc' = IF InRange(depth + 1, args.max_depth) THEN "call_root" ELSE "return"
    /\ UNCHANGED <<board, engine, args, root_eval, stack, outcome, entry,
                   aborted, makes, unmakes>>
    /\ UNCHANGED aside

(***************************************************************************)
(* search, line 132.                                                       *)
(***************************************************************************)
Return ==
    /\ pc = "return"
    /\ pc' = "done"
    /\ outcome' = [kind |-> "return", value |-> ReturnedResult]
    /\ UNCHANGED <<board, now, engine, args, locals, stack, ret, snapshots,
                   iterations, entry, completed, aborted, makes, unmakes>>
    /\ UNCHANGED aside

Next ==
    \/ \E max_depth \in 0 .. MaxDepth, time_limit_ms \in -1 .. MaxTimeLimit,
          on_iteration \in BOOLEAN, on_snapshot \in BOOLEAN,
          snapshot_interval_ms \in {0, MaxInterval} :
          Search(max_depth, time_limit_ms, on_iteration, on_snapshot,
                 snapshot_interval_ms)
    \/ SearchRootEnter
    \/ RootMove
    \/ NegamaxEnter
    \/ NegamaxMove
    \/ NegamaxResume
    \/ RootResume
    \/ IterationComplete
    \/ Return

Spec == Init /\ [][Next]_vars

(***************************************************************************)
(* One SearchEngine serving successive calls of search: when a call has    *)
(* returned or raised, the caller may call again, on any board.  The       *)
(* fields of the engine and the clock are carried over; the locals of the  *)
(* call are gone and the histories start afresh.                           *)
(***************************************************************************)
SearchAgain ==
    /\ pc \in {"done", "raised"}
    /\ calls + 1 < MaxCalls
    /\ calls' = calls + 1
    /\ pc' = "idle"
    /\ board' \in {NewBoard(p) : p \in RootPositions}
    /\ args' = NoArgs
    /\ root_eval' = None /\ throttler' = None /\ best_result' = None /\ depth' = 0
    /\ stack' = <<>> /\ ret' = None
    /\ outcome' = [kind |-> "none"]
    /\ snapshots' = <<>> /\ iterations' = <<>>
    /\ entry' = None /\ completed' = <<>> /\ aborted' = ""
    /\ makes' = 0 /\ unmakes' = 0
    /\ UNCHANGED <<now, engine, emits, ws, mg, hm, work>>

\* the calls made on the shared engine: without callbacks, to a depth of
\* 0 or 2, with a time limit of 1 ms or beyond the reach of the clock
ReuseNext ==
    \/ \E max_depth \in {0, 2}, time_limit_ms \in {1, MaxTimeLimit} :
          Search(max_depth, time_limit_ms, FALSE, FALSE, 0)
    \/ SearchRootEnter
    \/ RootMove
    \/ NegamaxEnter
    \/ NegamaxMove
    \/ NegamaxResume
    \/ RootResume
    \/ IterationComplete
    \/ Return
    \/ SearchAgain

SpecReuse == Init /\ [][ReuseNext]_vars

(***************************************************************************)
(* A SnapshotThrottle on its own: any sequence of emit calls, forced or    *)
(* not, at non-decreasing clock readings.  The snapshot handed to emit     *)
(* carries the reading at which emit was called.                           *)
(***************************************************************************)
ThrottleInit ==
    /\ board = NewBoard(0)
    /\ now = 0
    /\ nodes = 0 /\ cutoffs = 0 /\ deadline = 0 /\ start = 0
    /\ pc = "throttle"
    /\ \E interval_ms \in -1 .. MaxInterval, callback \in BOOLEAN :
          /\ args = [NoArgs EXCEPT !.snapshot_interval_ms = interval_ms,
                                   !.on_snapshot = callback]
          /\ throttler = SnapshotThrottle(interval_ms, callback)
    /\ root_eval = None /\ best_result = None /\ depth = 0
    /\ stack = <<>> /\ ret = None
    /\ outcome = [kind |-> "none"]
    /\ snapshots = <<>> /\ iterations = <<>>
    /\ entry = None /\ completed = <<>> /\ aborted = ""
    /\ makes = 0 /\ unmakes = 0 /\ emits = 0
    /\ NoConnection
    /\ NoGeneration
    /\ NoHeatmap
    /\ NoCalls

ThrottleEmit(force) ==
    /\ pc = "throttle"
    /\ emits < MaxEmits
    /\ emits' = emits + 1
    /\ \E t \in now .. MaxClock :
          IF throttler.callback
          THEN Emit([at |-> t], force, t)
          ELSE UNCHANGED <<now, throttler, snapshots>>
    /\ UNCHANGED <<board, engine, pc, args, root_eval, best_result, depth,
                   stack, ret, outcome, iterations, entry, completed, aborted,
                   makes, unmakes, ws, mg, hm, calls, work>>

ThrottleNext ==
    \/ ThrottleEmit(FALSE)
    \/ ThrottleEmit(TRUE)

SpecThrottle == ThrottleInit /\ [][ThrottleNext]_vars

(***************************************************************************)
(* The websocket route, src/api/websocket.py.  One connection; the handler *)
(* search_websocket and the task run_search are run by the event loop, one *)
(* callback at a time; engine.search runs on a thread of its own and hands *)
(* its snapshots to the loop.  The search is seen from outside: it raises  *)
(* ValueError for max_depth < 1, else it calls on_snapshot some number of  *)
(* times and returns.                                                      *)
(***************************************************************************)
\* the values of a JSON object: a missing key, an integer, a string
Absent == [kind |-> "absent", num |-> 0, str |-> ""]
JInt(n) == [kind |-> "int", num |-> n, str |-> ""]
JStr(str) == [kind |-> "str", num |-> 0, str |-> str]

\* the strings that int() parses, with their values
IntLiterals == {<<"0", 0>>, <<"1", 1>>}

\* int(x), lines 51-53: the integer, or None where int raises ValueError
int(x) ==
    IF x.kind = "int" THEN Some(x.num)
    ELSE IF \E l \in IntLiterals : l[1] = x.str
         THEN Some((CHOOSE l \in IntLiterals : l[1] = x.str)[2])
         ELSE None

\* payload.get(key, default), lines 50-53
Get(value, default) == IF value = Absent THEN default ELSE value

\* the standard initial position
START_FEN == "rnbqkbnr/pppppppp/8/8/8/8/PPPPPPPP/RNBQKBNR w KQkq - 0 1"

\* Board(fen), line 55: does the constructor accept the string; of the
\* strings tried here only START_FEN has the six fields of a FEN
FenAccepted(fen) == fen = JStr(START_FEN)

\* int(payload.get(key, default)), lines 51-53
Option(value, default) == int(Get(value, JInt(default)))

\* lines 17-20
_serialize_snapshot(snapshot) == [type |-> "snapshot", body |-> snapshot]
\* lines 23-40
_serialize_complete(result) == [type |-> "complete", body |-> result]
\* line 76
ErrorMessage(exc) == [type |-> "error", body |-> [message |-> exc]]

Callback(cb, req, it) == [cb |-> cb, req |-> req, item |-> it]

\* loop.call_soon, as used by create_task and by the wake-up of a task
call_soon(q, cb) == Append(q, cb)

\* variant: the newest callback runs first
call_soon_threadsafe_Lifo(q, cb) == <<cb>> \o q

\* loop.call_soon_threadsafe, line 61 and the completion of to_thread
call_soon_threadsafe(q, cb) == Append(q, cb)

\* the handler at "item = await event_queue.get()", lines 82-88, with q the
\* queue: it takes the head, leaves the loop on the sentinel and awaits the
\* worker, sends any other item, and is suspended on an empty queue
Drain(q, w) ==
    IF q = <<>>
    THEN /\ pc' = "get" /\ item' = None /\ event_queue' = q
    ELSE /\ event_queue' = Tail(q)
         /\ IF Head(q) = None
            THEN /\ pc' = IF w = "done" THEN "receive" ELSE "await_worker"
                 /\ item' = None
            ELSE /\ pc' = "send" /\ item' = Head(q)

\* event_queue.put_nowait(it) run by the loop: a suspended getter is woken
PutNowait(q, its, rest) ==
    /\ event_queue' = q \o its
    /\ IF pc = "get"
       THEN /\ pc' = "woken"
            /\ ready' = call_soon(rest, Callback("wake_handler", served, None))
       ELSE /\ pc' = pc
            /\ ready' = rest

\* variant of run_search without the finally clause: the sentinel is put
\* only after the complete message
run_search_SentinelOnSuccess(o) ==
    IF o.kind = "return"
    THEN << Some(_serialize_complete(o.value)), None >>
    ELSE << Some(ErrorMessage(o.kind)) >>

\* run_search, lines 63-78, once to_thread has delivered o: what it puts
\* into the queue, the terminal message (try or except) and then the
\* sentinel (finally)
run_search(o) ==
    << Some(IF o.kind = "return"
            THEN _serialize_complete(o.value)
            ELSE ErrorMessage(o.kind)),
       None >>

SearchIdle ==
    /\ board = NewBoard(0) /\ now = 0
    /\ nodes = 0 /\ cutoffs = 0 /\ deadline = 0 /\ start = 0
    /\ args = NoArgs
    /\ root_eval = None /\ throttler = None /\ best_result = None /\ depth = 0
    /\ stack = <<>> /\ ret = None
    /\ outcome = [kind |-> "none"]
    /\ snapshots = <<>> /\ iterations = <<>>
    /\ entry = None /\ completed = <<>> /\ aborted = ""
    /\ makes = 0 /\ unmakes = 0 /\ emits = 0

untouched == <<board, now, engine, locals, stack, ret, iterations, entry,
               completed, aborted, makes, unmakes, emits, mg, hm, calls, work>>

\* lines 45-46: the connection is accepted
WsInit ==
    /\ SearchIdle
    /\ pc = "receive"
    /\ payload = NoPayload /\ event_queue = <<>> /\ ready = <<>>
    /\ worker = "none" /\ thread = "none" /\ item = None
    /\ sent = <<>> /\ served = 0
    /\ NoGeneration
    /\ NoHeatmap
    /\ NoCalls

\* lines 49-83: a request arrives; the handler runs up to its first get
Receive(p) ==
    /\ pc = "receive"
    /\ served < MaxRequests
    /\ payload' = p
    /\ served' = served + 1
    /\ sent' = <<>>
    /\ snapshots' = <<>>
    /\ outcome' = [kind |-> "none"]
    /\ LET max_depth == Option(p.max_depth, 5)
           time_limit_ms == Option(p.time_limit_ms, 3000)
           snapshot_interval_ms == Option(p.snapshot_interval_ms, 75) IN
       IF \/ max_depth = None \/ time_limit_ms = None
          \/ snapshot_interval_ms = None
          \/ ~FenAccepted(Get(p.fen, JStr(START_FEN)))
       THEN \* ValueError leaves search_websocket: only WebSocketDisconnect
            \* is caught, line 89
            /\ pc' = "crashed"
            /\ UNCHANGED <<args, event_queue, ready, worker, thread, item>>
       ELSE /\ args' = [max_depth |-> max_depth[1],
                        time_limit_ms |-> time_limit_ms[1],
                        on_iteration |-> FALSE, on_snapshot |-> TRUE,
                        snapshot_interval_ms |-> snapshot_interval_ms[1]]
            /\ event_queue' = <<>>
            /\ worker' = "created"
            /\ thread' = "none"
            /\ ready' = call_soon(ready, Callback("run_search", served + 1, None))
            /\ pc' = "get"
            /\ item' = None
    /\ UNCHANGED untouched

\* line 49 raises WebSocketDisconnect, lines 89-90
Disconnect ==
    /\ pc = "receive"
    /\ pc' = "closed"
    /\ UNCHANGED <<args, outcome, snapshots, untouched, ws>>

\* the event loop runs its oldest callback
LoopStep ==
    /\ ready # <<>>
    /\ LET cb == Head(ready)
           rest == Tail(ready) IN
       CASE cb.cb = "run_search" ->
              \* lines 63-73: to_thread starts the thread
              /\ worker' = "await_thread"
              /\ thread' = "running"
              /\ ready' = rest
              /\ UNCHANGED <<pc, event_queue, item>>
         [] cb.cb = "put_nowait" ->
              \* line 61: the put of a snapshot into the queue of its request
              /\ IF cb.req = served
                 THEN PutNowait(event_queue, <<cb.item>>, rest)
                 ELSE /\ ready' = rest
                      /\ UNCHANGED <<pc, event_queue>>
              /\ UNCHANGED <<worker, thread, item>>
         [] cb.cb = "thread_done" ->
              \* the future of to_thread is resolved, run_search is woken
              /\ worker' = "woken"
              /\ ready' = call_soon(rest, Callback("wake_worker", cb.req, None))
              /\ UNCHANGED <<pc, event_queue, thread, item>>
         [] cb.cb = "wake_worker" ->
              \* lines 74-78: the terminal message, then the sentinel
              /\ worker' = "done"
              /\ PutNowait(event_queue, run_search(outcome), rest)
              /\ UNCHANGED <<thread, item>>
         [] cb.cb = "wake_handler" ->
              \* lines 83-88: get returns
              /\ ready' = rest
              /\ Drain(event_queue, worker)
              /\ UNCHANGED <<worker, thread>>
    /\ UNCHANGED <<args, outcome, snapshots, untouched, payload, sent, served>>

\* line 86: send_json completes, and the handler gets the next item
Send ==
    /\ pc = "send"
    /\ sent' = Append(sent, item[1])
    /\ Drain(event_queue, worker)
    /\ UNCHANGED <<args, outcome, snapshots, untouched, payload, ready, worker,
                   thread, served>>

\* the search calls on_snapshot, lines 60-61, on its thread
ThreadSnapshot ==
    /\ thread = "running"
    /\ ~InvalidArguments(args.max_depth)
    /\ Len(snapshots) < MaxSnapshots
    /\ LET snapshot == [seq |-> Len(snapshots) + 1] IN
       /\ snapshots' = Append(snapshots, snapshot)
       /\ ready' = call_soon_threadsafe(
                       ready, Callback("put_nowait", served,
                                       Some(_serialize_snapshot(snapshot))))
    /\ UNCHANGED <<pc, args, outcome, untouched, payload, event_queue, worker,
                   thread, item, sent, served>>

\* engine.search returns or raises, lines 65-76, on its thread
ThreadFinish ==
    /\ thread = "running"
    /\ thread' = "finished"
    /\ outcome' = IF InvalidArguments(args.max_depth)
                  THEN [kind |-> "ValueError"]
                  ELSE [kind |-> "return", value |-> [depth |-> Len(snapshots)]]
    /\ ready' = call_soon_threadsafe(ready, Callback("thread_done", served, None))
    /\ UNCHANGED <<pc, args, snapshots, untouched, payload, event_queue, worker,
                   item, sent, served>>

Payloads ==
    [fen : {Absent, JStr("8/8/8")},
     max_depth : {Absent, JInt(0), JInt(1), JStr("1"), JStr("deep")},
     time_limit_ms : {JInt(1), JStr("soon")},
     snapshot_interval_ms : {Absent, JStr("often")}]

WsNext ==
    \/ \E p \in Payloads : Receive(p)
    \/ Disconnect
    \/ LoopStep
    \/ Send
    \/ ThreadSnapshot
    \/ ThreadFinish

SpecWs == WsInit /\ [][WsNext]_vars

\* The event loop runs every callback it holds, send_json to a connected
\* client completes, and engine.search returns or raises: its depth is
\* bounded and it reads the deadline at every node.
SpecWsLive ==
    /\ WsInit /\ [][WsNext]_vars
    /\ WF_vars(LoopStep) /\ WF_vars(Send) /\ WF_vars(ThreadFinish)

(***************************************************************************)
(* Pieces, squares and the attack tables, movegen.py lines 47-133.         *)
(* A bitboard is modelled as the set of its squares; iter_bits yields the  *)
(* squares of a bitboard in ascending order.                               *)
(***************************************************************************)
WHITE == 0
BLACK == 1
WP == 0
WN == 1
WB == 2
WR == 3
WQ == 4
WK == 5
BP == 6
BN == 7
BB == 8
BR == 9
BQ == 10
BK == 11
WHITE_PIECES == WP .. WK
BLACK_PIECES == BP .. BK
A1 == 0
B1 == 1
C1 == 2
D1 == 3
E1 == 4
F1 == 5
G1 == 6
H1 == 7
A8 == 56
B8 == 57
C8 == 58
D8 == 59
E8 == 60
F8 == 61
G8 == 62
H8 == 63
CASTLE_WHITE_KING == 1
CASTLE_WHITE_QUEEN == 2
CASTLE_BLACK_KING == 4
CASTLE_BLACK_QUEEN == 8

Squares == 0 .. 63
SquareList == [i \in 1 .. 64 |-> i - 1]
iter_bits(bb) == SelectSeq(SquareList, LAMBDA sq : sq \in bb)

RECURSIVE Flatten(_)
Flatten(ss) == IF ss = <<>> THEN <<>> ELSE Head(ss) \o Flatten(Tail(ss))

KNIGHT_DELTAS == << <<1, 2>>, <<2, 1>>, <<2, -1>>, <<1, -2>>,
                    <<-1, -2>>, <<-2, -1>>, <<-2, 1>>, <<-1, 2>> >>
KING_DELTAS == << <<1, 1>>, <<1, 0>>, <<1, -1>>, <<0, 1>>,
                  <<0, -1>>, <<-1, 1>>, <<-1, 0>>, <<-1, -1>> >>
RAY_DIRECTIONS == [N |-> <<0, 1>>, S |-> <<0, -1>>, E |-> <<1, 0>>, W |-> <<-1, 0>>,
                   NE |-> <<1, 1>>, NW |-> <<-1, 1>>, SE |-> <<1, -1>>, SW |-> <<-1, -1>>]
BISHOP_RAY_KEYS == <<"NE", "NW", "SE", "SW">>
ROOK_RAY_KEYS == <<"N", "S", "E", "W">>
QUEEN_RAY_KEYS == BISHOP_RAY_KEYS \o ROOK_RAY_KEYS

_in_bounds(file_idx, rank_idx) ==
    0 <= file_idx /\ file_idx < 8 /\ 0 <= rank_idx /\ rank_idx < 8
_sq(file_idx, rank_idx) == rank_idx * 8 + file_idx

_build_leaper_attacks(deltas) ==
    [sq_idx \in Squares |->
        { _sq((sq_idx % 8) + deltas[i][1], (sq_idx \div 8) + deltas[i][2]) :
            i \in { j \in 1 .. Len(deltas) :
                      _in_bounds((sq_idx % 8) + deltas[j][1],
                                 (sq_idx \div 8) + deltas[j][2]) } }]

_build_pawn_attacks(side) ==
    [sq_idx \in Squares |->
        LET nr == (sq_idx \div 8) + (IF side = WHITE THEN 1 ELSE -1) IN
        { _sq((sq_idx % 8) + df, nr) :
            df \in { d \in {-1, 1} : _in_bounds((sq_idx % 8) + d, nr) } }]

_build_rays ==
    [key \in DOMAIN RAY_DIRECTIONS |->
        [sq_idx \in Squares |->
            LET df == RAY_DIRECTIONS[key][1]
                dr == RAY_DIRECTIONS[key][2]
                n == Cardinality({k \in 1 .. 7 :
                        _in_bounds((sq_idx % 8) + k * df, (sq_idx \div 8) + k * dr)})
            IN  [k \in 1 .. n |->
                    _sq((sq_idx % 8) + k * df, (sq_idx \div 8) + k * dr)]]]

KNIGHT_ATTACKS == _build_leaper_attacks(KNIGHT_DELTAS)
KING_ATTACKS == _build_leaper_attacks(KING_DELTAS)
PAWN_ATTACKS == <<_build_pawn_attacks(WHITE), _build_pawn_attacks(BLACK)>>
RAYS == _build_rays

(***************************************************************************)
(* Board and Move.  A board holds the piece on every square (the twelve    *)
(* bitboards and the occupancies are read off it), the side to move, the   *)
(* castling rights as the set of their mask bits, the en-passant target,   *)
(* the two clocks and the stack of undo records.                           *)
(***************************************************************************)
Move(from_square, to_square, piece, captured, promotion, is_double_push, is_en_passant, is_castle) ==
    [from_square |-> from_square, to_square |-> to_square, piece |-> piece,
     captured |-> captured, promotion |-> promotion,
     is_double_push |-> is_double_push, is_en_passant |-> is_en_passant,
     is_castle |-> is_castle]

piece_on(b, sq) == b.squares[sq]
piece_bitboards(b, piece) == {sq \in Squares : b.squares[sq] = piece}
occupancies(b, side) ==
    {sq \in Squares : b.squares[sq] \in (IF side = WHITE THEN WHITE_PIECES
                                                           ELSE BLACK_PIECES)}

\* the rook's move that goes with a castling move of the king
CastleRook(to_square) ==
    CASE to_square = G1 -> <<H1, F1>>
      [] to_square = C1 -> <<A1, D1>>
      [] to_square = G8 -> <<H8, F8>>
      [] to_square = C8 -> <<A8, D8>>

\* the castling rights that a move from or to the square takes away
RightsLostAt(sq) ==
    CASE sq = E1 -> {CASTLE_WHITE_KING, CASTLE_WHITE_QUEEN}
      [] sq = H1 -> {CASTLE_WHITE_KING}
      [] sq = A1 -> {CASTLE_WHITE_QUEEN}
      [] sq = E8 -> {CASTLE_BLACK_KING, CASTLE_BLACK_QUEEN}
      [] sq = H8 -> {CASTLE_BLACK_KING}
      [] sq = A8 -> {CASTLE_BLACK_QUEEN}
      [] OTHER -> {}

\* the square of the pawn that an en-passant capture to to_square removes
EnPassantVictim(side, to_square) ==
    IF side = WHITE THEN to_square - 8 ELSE to_square + 8

make_move(b, move) ==
    LET side == b.side_to_move
        placed == IF move.promotion # PIECE_NONE THEN move.promotion ELSE move.piece
        s1 == [b.squares EXCEPT ![move.from_square] = PIECE_NONE,
                                ![move.to_square] = placed]
        s2 == IF move.is_en_passant
              THEN [s1 EXCEPT ![EnPassantVictim(side, move.to_square)] = PIECE_NONE]
              ELSE s1
        s3 == IF move.is_castle
              THEN [s2 EXCEPT ![CastleRook(move.to_square)[1]] = PIECE_NONE,
                              ![CastleRook(move.to_square)[2]] =
                                  b.squares[CastleRook(move.to_square)[1]]]
              ELSE s2
        pawn == move.piece \in {WP, BP}
        captures == move.captured # PIECE_NONE \/ move.is_en_passant
    IN  [squares |-> s3,
         side_to_move |-> opposite(side),
         castling_rights |-> b.castling_rights
                             \ (RightsLostAt(move.from_square)
                                \cup RightsLostAt(move.to_square)),
         en_passant |-> IF move.is_double_push
                        THEN (move.from_square + move.to_square) \div 2
                        ELSE PIECE_NONE,
         halfmove_clock |-> IF pawn \/ captures THEN 0 ELSE b.halfmove_clock + 1,
         fullmove_number |-> b.fullmove_number + (IF side = BLACK THEN 1 ELSE 0),
         history |-> Append(b.history,
                            [move |-> move,
                             captured |-> IF move.is_en_passant
                                          THEN (IF side = WHITE THEN BP ELSE WP)
                                          ELSE move.captured,
                             castling_rights |-> b.castling_rights,
                             en_passant |-> b.en_passant,
                             halfmove_clock |-> b.halfmove_clock])]

unmake_move(b) ==
    LET undo == b.history[Len(b.history)]
        move == undo.move
        side == opposite(b.side_to_move)
        s1 == [b.squares EXCEPT ![move.from_square] = move.piece,
                                ![move.to_square] =
                                    IF move.is_en_passant THEN PIECE_NONE
                                    ELSE undo.captured]
        s2 == IF move.is_en_passant
              THEN [s1 EXCEPT ![EnPassantVictim(side, move.to_square)] = undo.captured]
              ELSE s1
        s3 == IF move.is_castle
              THEN [s2 EXCEPT ![CastleRook(move.to_square)[1]] =
                                  b.squares[CastleRook(move.to_square)[2]],
                              ![CastleRook(move.to_square)[2]] = PIECE_NONE]
              ELSE s2
    IN  [squares |-> s3,
         side_to_move |-> side,
         castling_rights |-> undo.castling_rights,
         en_passant |-> undo.en_passant,
         halfmove_clock |-> undo.halfmove_clock,
         fullmove_number |-> b.fullmove_number - (IF side = BLACK THEN 1 ELSE 0),
         history |-> SubSeq(b.history, 1, Len(b.history) - 1)]

(***************************************************************************)
(* Attack detection, movegen.py lines 136-197.                             *)
(***************************************************************************)
king_square(b, side) ==
    LET king_bb == piece_bitboards(b, IF side = WHITE THEN WK ELSE BK) IN
    IF king_bb = {} THEN -1
    ELSE CHOOSE sq \in king_bb : \A other \in king_bb : sq <= other

\* the squares of a ray up to and including the first occupied one
Walk(b, ray) ==
    LET occupied == {i \in 1 .. Len(ray) : piece_on(b, ray[i]) # PIECE_NONE} IN
    IF occupied = {} THEN ray
    ELSE SubSeq(ray, 1, CHOOSE i \in occupied : \A j \in occupied : i <= j)

_is_attacked_on_rays(b, square, ray_keys, sliders) ==
    \E k \in 1 .. Len(ray_keys) :
        LET walk == Walk(b, RAYS[ray_keys[k]][square]) IN
        walk # <<>> /\ piece_on(b, walk[Len(walk)]) \in sliders

\* variant: the pawn table of the attacking side itself is used
is_square_attacked_OwnPawnTable(b, square, by_side) ==
    IF by_side = WHITE
    THEN \/ piece_bitboards(b, WP) \cap PAWN_ATTACKS[WHITE + 1][square] # {}
         \/ piece_bitboards(b, WN) \cap KNIGHT_ATTACKS[square] # {}
         \/ piece_bitboards(b, WK) \cap KING_ATTACKS[square] # {}
         \/ _is_attacked_on_rays(b, square, BISHOP_RAY_KEYS, {WB, WQ})
         \/ _is_attacked_on_rays(b, square, ROOK_RAY_KEYS, {WR, WQ})
    ELSE \/ piece_bitboards(b, BP) \cap PAWN_ATTACKS[BLACK + 1][square] # {}
         \/ piece_bitboards(b, BN) \cap KNIGHT_ATTACKS[square] # {}
         \/ piece_bitboards(b, BK) \cap KING_ATTACKS[square] # {}
         \/ _is_attacked_on_rays(b, square, BISHOP_RAY_KEYS, {BB, BQ})
         \/ _is_attacked_on_rays(b, square, ROOK_RAY_KEYS, {BR, BQ})

is_square_attacked(b, square, by_side) ==
    IF by_side = WHITE
    THEN \/ piece_bitboards(b, WP) \cap PAWN_ATTACKS[BLACK + 1][square] # {}
         \/ piece_bitboards(b, WN) \cap KNIGHT_ATTACKS[square] # {}
         \/ piece_bitboards(b, WK) \cap KING_ATTACKS[square] # {}
         \/ _is_attacked_on_rays(b, square, BISHOP_RAY_KEYS, {WB, WQ})
         \/ _is_attacked_on_rays(b, square, ROOK_RAY_KEYS, {WR, WQ})
    ELSE \/ piece_bitboards(b, BP) \cap PAWN_ATTACKS[WHITE + 1][square] # {}
         \/ piece_bitboards(b, BN) \cap KNIGHT_ATTACKS[square] # {}
         \/ piece_bitboards(b, BK) \cap KING_ATTACKS[square] # {}
         \/ _is_attacked_on_rays(b, square, BISHOP_RAY_KEYS, {BB, BQ})
         \/ _is_attacked_on_rays(b, square, ROOK_RAY_KEYS, {BR, BQ})

\* in_check of movegen.py, lines 193-197, on a board of pieces
InCheck(b, side) ==
    IF king_square(b, side) = -1 THEN TRUE
    ELSE is_square_attacked(b, king_square(b, side), opposite(side))

(***************************************************************************)
(* Pseudo-legal generation, movegen.py lines 200-448.  The white and the   *)
(* black branch of _generate_pawn_moves and of _generate_castling differ   *)
(* in the direction, the ranks and the squares only.                       *)
(***************************************************************************)
_append_pawn_move(from_sq, to_sq, pawn_piece, captured, promotion_rank, is_double_push, is_en_passant) ==
    IF to_sq \div 8 = promotion_rank
    THEN LET promotions == IF pawn_piece = WP THEN <<WQ, WR, WB, WN>>
                                              ELSE <<BQ, BR, BB, BN>> IN
         [i \in 1 .. 4 |-> Move(from_sq, to_sq, pawn_piece, captured,
                                promotions[i], FALSE, is_en_passant, FALSE)]
    ELSE << Move(from_sq, to_sq, pawn_piece, captured, PIECE_NONE,
                 is_double_push, is_en_passant, FALSE) >>

\* lines 258-290 and 305-337: the capture of one pawn towards one side
PawnCapture(b, from_sq, capture, pawn_piece, enemies, promotion_rank) ==
    IF capture < 0 \/ capture >= 64 THEN <<>>
    ELSE IF piece_on(b, capture) \in enemies
    THEN _append_pawn_move(from_sq, capture, pawn_piece, piece_on(b, capture),
                           promotion_rank, FALSE, FALSE)
    ELSE IF b.en_passant = capture
    THEN _append_pawn_move(from_sq, capture, pawn_piece, PIECE_NONE,
                           promotion_rank, FALSE, TRUE)
    ELSE <<>>

\* lines 246-290 and 293-337: the moves of one pawn
PawnMoves(b, from_sq) ==
    LET white == b.side_to_move = WHITE
        pawn_piece == IF white THEN WP ELSE BP
        enemies == IF white THEN BLACK_PIECES ELSE WHITE_PIECES
        promotion_rank == IF white THEN 7 ELSE 0
        file_idx == from_sq % 8
        rank_idx == from_sq \div 8
        one == IF white THEN from_sq + 8 ELSE from_sq - 8
        two == IF white THEN from_sq + 16 ELSE from_sq - 16
        pushes ==
            IF 0 <= one /\ one < 64 /\ piece_on(b, one) = PIECE_NONE
            THEN _append_pawn_move(from_sq, one, pawn_piece, PIECE_NONE,
                                   promotion_rank, FALSE, FALSE)
                 \o (IF rank_idx = (IF white THEN 1 ELSE 6)
                        /\ piece_on(b, two) = PIECE_NONE
                     THEN << Move(from_sq, two, pawn_piece, PIECE_NONE,
                                  PIECE_NONE, TRUE, FALSE, FALSE) >>
                     ELSE <<>>)
            ELSE <<>>
        left == IF file_idx > 0
                THEN PawnCapture(b, from_sq, IF white THEN from_sq + 7 ELSE from_sq - 9,
                                 pawn_piece, enemies, promotion_rank)
                ELSE <<>>
        right == IF file_idx < 7
                 THEN PawnCapture(b, from_sq, IF white THEN from_sq + 9 ELSE from_sq - 7,
                                  pawn_piece, enemies, promotion_rank)
                 ELSE <<>>
    IN  pushes \o left \o right

_generate_pawn_moves(b) ==
    LET pawns == iter_bits(piece_bitboards(b, IF b.side_to_move = WHITE
                                                THEN WP ELSE BP)) IN
    Flatten([i \in 1 .. Len(pawns) |-> PawnMoves(b, pawns[i])])

_generate_leaper_moves(b, piece, attack_table) ==
    LET own_occ == occupancies(b, b.side_to_move)
        origins == iter_bits(piece_bitboards(b, piece)) IN
    Flatten([i \in 1 .. Len(origins) |->
        LET targets == iter_bits(attack_table[origins[i]] \ own_occ) IN
        [j \in 1 .. Len(targets) |->
            Move(origins[i], targets[j], piece, piece_on(b, targets[j]),
                 PIECE_NONE, FALSE, FALSE, FALSE)]])

\* lines 361-368: the moves of one slider along one ray
RayMoves(b, from_sq, piece, ray) ==
    LET own_set == IF b.side_to_move = WHITE THEN WHITE_PIECES ELSE BLACK_PIECES
        walk == Walk(b, ray)
        reach == IF walk # <<>> /\ piece_on(b, walk[Len(walk)]) \in own_set
                 THEN SubSeq(walk, 1, Len(walk) - 1) ELSE walk IN
    [j \in 1 .. Len(reach) |->
        Move(from_sq, reach[j], piece, piece_on(b, reach[j]),
             PIECE_NONE, FALSE, FALSE, FALSE)]

_generate_slider_moves(b, piece, ray_keys) ==
    LET origins == iter_bits(piece_bitboards(b, piece)) IN
    Flatten([i \in 1 .. Len(origins) |->
        Flatten([k \in 1 .. Len(ray_keys) |->
            RayMoves(b, origins[i], piece, RAYS[ray_keys[k]][origins[i]])])])

\* variant: only the square the king lands on must be safe
CastlingMove_SafeLandingOnly(b, right, king, rook, home, empty, rook_home, safe, to_sq) ==
    IF /\ right \in b.castling_rights
       /\ \A sq \in empty : piece_on(b, sq) = PIECE_NONE
       /\ piece_on(b, rook_home) = rook
       /\ ~is_square_attacked(b, to_sq, opposite(b.side_to_move))
    THEN << Move(home, to_sq, king, PIECE_NONE, PIECE_NONE, FALSE, FALSE, TRUE) >>
    ELSE <<>>

\* lines 377-398 and 404-425: one castling move
CastlingMove(b, right, king, rook, home, empty, rook_home, safe, to_sq) ==
    IF /\ right \in b.castling_rights
       /\ \A sq \in empty : piece_on(b, sq) = PIECE_NONE
       /\ piece_on(b, rook_home) = rook
       /\ \A sq \in safe : ~is_square_attacked(b, sq, opposite(b.side_to_move))
    THEN << Move(home, to_sq, king, PIECE_NONE, PIECE_NONE, FALSE, FALSE, TRUE) >>
    ELSE <<>>

_generate_castling(b) ==
    IF b.side_to_move = WHITE
    THEN IF piece_on(b, E1) # WK THEN <<>>
         ELSE CastlingMove(b, CASTLE_WHITE_KING, WK, WR, E1, {F1, G1}, H1,
                           {E1, F1, G1}, G1)
              \o CastlingMove(b, CASTLE_WHITE_QUEEN, WK, WR, E1, {B1, C1, D1}, A1,
                              {E1, D1, C1}, C1)
    ELSE IF piece_on(b, E8) # BK THEN <<>>
         ELSE CastlingMove(b, CASTLE_BLACK_KING, BK, BR, E8, {F8, G8}, H8,
                           {E8, F8, G8}, G8)
              \o CastlingMove(b, CASTLE_BLACK_QUEEN, BK, BR, E8, {B8, C8, D8}, A8,
                              {E8, D8, C8}, C8)

generate_pseudo_legal_moves(b) ==
    _generate_pawn_moves(b)
    \o (IF b.side_to_move = WHITE
        THEN _generate_leaper_moves(b, WN, KNIGHT_ATTACKS)
             \o _generate_slider_moves(b, WB, BISHOP_RAY_KEYS)
             \o _generate_slider_moves(b, WR, ROOK_RAY_KEYS)
             \o _generate_slider_moves(b, WQ, QUEEN_RAY_KEYS)
             \o _generate_leaper_moves(b, WK, KING_ATTACKS)
        ELSE _generate_leaper_moves(b, BN, KNIGHT_ATTACKS)
             \o _generate_slider_moves(b, BB, BISHOP_RAY_KEYS)
             \o _generate_slider_moves(b, BR, ROOK_RAY_KEYS)
             \o _generate_slider_moves(b, BQ, QUEEN_RAY_KEYS)
             \o _generate_leaper_moves(b, BK, KING_ATTACKS))
    \o _generate_castling(b)

(***************************************************************************)
(* Evaluation, evaluation.py.  Dicts keyed by a square are functions on    *)
(* the names of the squares they hold.                                     *)
(***************************************************************************)
PIECE_VALUES == <<100, 320, 330, 500, 900, 0>>

PAWN_PST ==
    << 0, 0, 0, 0, 0, 0, 0, 0,
       8, 10, 10, -12, -12, 10, 10, 8,
       5, 6, 8, 14, 14, 8, 6, 5,
       4, 5, 8, 24, 24, 8, 5, 4,
       2, 3, 7, 20, 20, 7, 3, 2,
       1, 1, 3, 10, 10, 3, 1, 1,
       0, 0, -6, -6, -6, -6, 0, 0,
       0, 0, 0, 0, 0, 0, 0, 0 >>

KNIGHT_PST ==
    << -45, -25, -20, -18, -18, -20, -25, -45,
       -20, -4, 2, 6, 6, 2, -4, -20,
       -10, 4, 10, 14, 14, 10, 4, -10,
       -8, 8, 15, 18, 18, 15, 8, -8,
       -8, 8, 15, 18, 18, 15, 8, -8,
       -10, 4, 10, 14, 14, 10, 4, -10,
       -20, -4, 2, 6, 6, 2, -4, -20,
       -45, -25, -20, -18, -18, -20, -25, -45 >>

BISHOP_PST ==
    << -18, -8, -8, -8, -8, -8, -8, -18,
       -8, 5, 2, 2, 2, 2, 5, -8,
       -6, 2, 8, 8, 8, 8, 2, -6,
       -4, 5, 8, 12, 12, 8, 5, -4,
       -4, 5, 8, 12, 12, 8, 5, -4,
       -6, 2, 8, 8, 8, 8, 2, -6,
       -8, 5, 2, 2, 2, 2, 5, -8,
       -18, -8, -8, -8, -8, -8, -8, -18 >>

ROOK_PST ==
    << 0, 4, 4, 7, 7, 4, 4, 0,
       -2, 0, 0, 2, 2, 0, 0, -2,
       -2, 0, 0, 2, 2, 0, 0, -2,
       -2, 0, 0, 2, 2, 0, 0, -2,
       -2, 0, 0, 2, 2, 0, 0, -2,
       -2, 0, 0, 2, 2, 0, 0, -2,
       5, 9, 9, 11, 11, 9, 9, 5,
       0, 4, 4, 7, 7, 4, 4, 0 >>

QUEEN_PST ==
    << -10, -6, -4, -2, -2, -4, -6, -10,
       -6, -2, 0, 1, 1, 0, -2, -6,
       -4, 0, 1, 2, 2, 1, 0, -4,
       -2, 1, 2, 3, 3, 2, 1, -2,
       -2, 1, 2, 3, 3, 2, 1, -2,
       -4, 0, 1, 2, 2, 1, 0, -4,
       -6, -2, 0, 1, 1, 0, -2, -6,
       -10, -6, -4, -2, -2, -4, -6, -10 >>

KING_PST ==
    << 12, 24, 8, -6, -6, 8, 24, 12,
       12, 18, 2, -8, -8, 2, 18, 12,
       8, 10, -4, -12, -12, -4, 10, 8,
       3, 2, -9, -16, -16, -9, 2, 3,
       -2, -6, -12, -20, -20, -12, -6, -2,
       -10, -12, -16, -22, -22, -16, -12, -10,
       -15, -14, -14, -14, -14, -14, -14, -15,
       -20, -16, -12, -10, -10, -12, -16, -20 >>

PST_BY_KIND == <<PAWN_PST, KNIGHT_PST, BISHOP_PST, ROOK_PST, QUEEN_PST, KING_PST>>
MOBILITY_WEIGHT == <<1, 4, 5, 2, 1, 1>>

PIECE_SYMBOLS == <<"P", "N", "B", "R", "Q", "K", "p", "n", "b", "r", "q", "k">>
FileChars == <<"a", "b", "c", "d", "e", "f", "g", "h">>
RankChars == <<"1", "2", "3", "4", "5", "6", "7", "8">>
\* the name of a square, a string of two characters
square_name(sq) == <<FileChars[(sq % 8) + 1], RankChars[(sq \div 8) + 1]>>

\* variant: black reads the tables like white
_mirror_sq_Same(square) == square

_mirror_sq(square) == (7 - (square \div 8)) * 8 + (square % 8)

_piece_side(piece) == IF piece < BP THEN WHITE ELSE BLACK
_piece_kind(piece) == IF piece < BP THEN piece ELSE piece - 6

RECURSIVE SumSeq(_)
SumSeq(s) == IF s = <<>> THEN 0 ELSE Head(s) + SumSeq(Tail(s))

_mobility_targets(b, piece, square, side) ==
    LET own_occ == occupancies(b, side)
        own_set == IF side = WHITE THEN WHITE_PIECES ELSE BLACK_PIECES
        ray_keys == IF piece \in {WB, BB} THEN BISHOP_RAY_KEYS
                    ELSE IF piece \in {WR, BR} THEN ROOK_RAY_KEYS
                    ELSE QUEEN_RAY_KEYS
        count(ray) == LET walk == Walk(b, ray) IN
                      IF walk # <<>> /\ piece_on(b, walk[Len(walk)]) \in own_set
                      THEN Len(walk) - 1 ELSE Len(walk)
    IN  IF piece \in {WN, BN} THEN Cardinality(KNIGHT_ATTACKS[square] \ own_occ)
        ELSE IF piece \in {WK, BK} THEN Cardinality(KING_ATTACKS[square] \ own_occ)
        ELSE IF piece \in {WP, BP} THEN 0
        ELSE SumSeq([k \in 1 .. Len(ray_keys) |-> count(RAYS[ray_keys[k]][square])])

\* lines 211-246: the term of the pawn of side on sq
PawnTerm(b, side, sq) ==
    LET pawns == piece_bitboards(b, IF side = WHITE THEN WP ELSE BP)
        enemy_pawns == piece_bitboards(b, IF side = WHITE THEN BP ELSE WP)
        file_idx == sq % 8
        rank_idx == sq \div 8
        doubled == Cardinality({p \in pawns : p % 8 = file_idx}) > 1
        has_adjacent_friend ==
            \E p \in pawns : p % 8 \in {file_idx - 1, file_idx + 1}
        blocked ==
            \E e \in enemy_pawns :
                /\ e % 8 \in {file_idx - 1, file_idx, file_idx + 1}
                /\ IF side = WHITE THEN e \div 8 > rank_idx ELSE e \div 8 < rank_idx
        advance == IF side = WHITE THEN rank_idx ELSE 7 - rank_idx
    IN  (IF doubled THEN -14 ELSE 0)
        + (IF has_adjacent_friend THEN 0 ELSE -12)
        + (IF blocked THEN 0 ELSE 20 + advance * 6)

\* terms[side], a dict from the squares of the pawns of side
_pawn_structure_terms(b, side) ==
    [sq \in piece_bitboards(b, IF side = WHITE THEN WP ELSE BP) |->
        PawnTerm(b, side, sq)]

\* lines 259-280: the term of the king of side on ksq
KingTerm(b, side, ksq) ==
    LET opp == IF side = WHITE THEN BLACK ELSE WHITE
        own_pawn == IF side = WHITE THEN WP ELSE BP
        offsets == IF side = WHITE THEN <<7, 8, 9>> ELSE <<-7, -8, -9>>
        shield_at(target) ==
            IF ~(0 <= target /\ target < 64) THEN 0
            ELSE IF (target % 8) - (ksq % 8) > 1 \/ (ksq % 8) - (target % 8) > 1 THEN 0
            ELSE IF piece_on(b, target) = own_pawn THEN 6 ELSE -8
        ring == KING_ATTACKS[ksq] \cup {ksq}
    IN  SumSeq([i \in 1 .. 3 |-> shield_at(ksq + offsets[i])])
        - 8 * Cardinality({sq \in ring : is_square_attacked(b, sq, opp)})

\* terms[side], a dict that holds the square of the king of side, if any
_king_safety_terms(b, side) ==
    [ksq \in {king_square(b, side)} \ {-1} |-> KingTerm(b, side, ksq)]

\* dict.get(key, 0)
GetOr0(dict, key) == IF key \in DOMAIN dict THEN dict[key] ELSE 0

\* lines 296-322: the attacks of the pieces of side on target, counted
Attackers(b, side, target) ==
    LET own_set == IF side = WHITE THEN WHITE_PIECES ELSE BLACK_PIECES
        off == IF side = WHITE THEN 0 ELSE 6
        hits(piece, ray_keys) ==
            Cardinality({<<sq, k>> \in piece_bitboards(b, piece) \X (1 .. Len(ray_keys)) :
                LET walk == Walk(b, RAYS[ray_keys[k]][sq]) IN
                \E i \in 1 .. Len(walk) :
                    /\ walk[i] = target
                    /\ piece_on(b, target) \notin own_set})
    IN  Cardinality({sq \in piece_bitboards(b, WP + off) :
                        target \in PAWN_ATTACKS[side + 1][sq]})
        + Cardinality({sq \in piece_bitboards(b, WN + off) :
                        target \in KNIGHT_ATTACKS[sq]})
        + Cardinality({sq \in piece_bitboards(b, WK + off) :
                        target \in KING_ATTACKS[sq]})
        + hits(WB + off, BISHOP_RAY_KEYS)
        + hits(WR + off, ROOK_RAY_KEYS)
        + hits(WQ + off, QUEEN_RAY_KEYS)

_pressure_heatmap(b) ==
    LET heat == [sq \in Squares |->
                    Attackers(b, WHITE, sq) - Attackers(b, BLACK, sq)]
        hot == {sq \in Squares : heat[sq] # 0} IN
    [name \in {square_name(sq) : sq \in hot} |->
        heat[CHOOSE sq \in hot : square_name(sq) = name]]

\* variant: signed_total is total for both sides
SignedTotal_Unsigned(total, side) == total

\* line 361
SignedTotal(total, side) == IF side = WHITE THEN total ELSE -total

\* lines 340-352: the values of the piece on sq
TermRecord(piece, side, base, pst, mobility, pawn_structure, king_safety) ==
    [piece |-> PIECE_SYMBOLS[piece + 1],
     side |-> IF side = WHITE THEN "w" ELSE "b",
     base |-> base, pst |-> pst, mobility |-> mobility,
     pawn_structure |-> pawn_structure, king_safety |-> king_safety,
     total |-> base + pst + mobility + pawn_structure + king_safety,
     signed_total |->
         SignedTotal(base + pst + mobility + pawn_structure + king_safety, side)]

PieceTerms(b, sq) ==
    LET piece == piece_on(b, sq)
        side == _piece_side(piece)
        kind == _piece_kind(piece)
    IN  TermRecord(piece, side,
                   PIECE_VALUES[kind + 1],
                   IF side = WHITE THEN PST_BY_KIND[kind + 1][sq + 1]
                   ELSE PST_BY_KIND[kind + 1][_mirror_sq(sq) + 1],
                   _mobility_targets(b, piece, sq, side) * MOBILITY_WEIGHT[kind + 1],
                   GetOr0(_pawn_structure_terms(b, side), sq),
                   GetOr0(_king_safety_terms(b, side), sq))

\* lines 354-358: the components of side, summed over its pieces in the
\* order of the loop of line 339
SideComponents(terms, side) ==
    LET sqs == iter_bits({sq \in DOMAIN terms :
                             terms[sq].side = (IF side = WHITE THEN "w" ELSE "b")}) IN
    [material |-> SumSeq([i \in 1 .. Len(sqs) |-> terms[sqs[i]].base]),
     pst |-> SumSeq([i \in 1 .. Len(sqs) |-> terms[sqs[i]].pst]),
     mobility |-> SumSeq([i \in 1 .. Len(sqs) |-> terms[sqs[i]].mobility]),
     king_safety |-> SumSeq([i \in 1 .. Len(sqs) |-> terms[sqs[i]].king_safety]),
     pawn_structure |->
         SumSeq([i \in 1 .. Len(sqs) |-> terms[sqs[i]].pawn_structure])]

\* lines 375, 376: sum(components.values())
ComponentTotal(c) ==
    c.material + c.pst + c.mobility + c.king_safety + c.pawn_structure

\* lines 378-401
Details(b, terms, white, black, white_minus_black) ==
    [score_cp |-> IF b.side_to_move = WHITE THEN white_minus_black
                  ELSE -white_minus_black,
     score |-> EvalOf(IF b.side_to_move = WHITE THEN white_minus_black
                      ELSE -white_minus_black),
     white_minus_black |-> white_minus_black,
     components |->
         [white |-> white, black |-> black,
          net |-> [material |-> white.material - black.material,
                   pst |-> white.pst - black.pst,
                   mobility |-> white.mobility - black.mobility,
                   king_safety |-> white.king_safety - black.king_safety,
                   pawn_structure |-> white.pawn_structure - black.pawn_structure]],
     piece_values |-> [name \in {square_name(sq) : sq \in DOMAIN terms} |->
                          terms[CHOOSE sq \in DOMAIN terms : square_name(sq) = name]
                              .signed_total],
     piece_breakdown |-> [name \in {square_name(sq) : sq \in DOMAIN terms} |->
                             terms[CHOOSE sq \in DOMAIN terms : square_name(sq) = name]],
     heatmap |-> _pressure_heatmap(b)]

\* line 377
Totals(b, terms, white, black) ==
    Details(b, terms, white, black, ComponentTotal(white) - ComponentTotal(black))

\* lines 354-376
Components(b, terms) ==
    Totals(b, terms, SideComponents(terms, WHITE), SideComponents(terms, BLACK))

\* _evaluate(board, collect_details=True), lines 327-401
_evaluate(b) ==
    Components(b, [sq \in {s \in Squares : piece_on(b, s) # PIECE_NONE} |->
                      PieceTerms(b, sq)])

(***************************************************************************)
(* generate_legal_moves, the move ordering of the search and               *)
(* evaluate_detailed on boards of pieces.  From each of the positions of   *)
(* TestBoards the position is evaluated, its legal moves are generated,    *)
(* move by move, and ordered, and one of them may be played.               *)
(***************************************************************************)
\* Board(fen) for the placement, the side to move, the castling rights and
\* the en-passant target of a FEN
BoardOf(placement, side_to_move, castling_rights, en_passant) ==
    [squares |-> [sq \in Squares |->
                    IF \E p \in placement : p[1] = sq
                    THEN (CHOOSE p \in placement : p[1] = sq)[2]
                    ELSE PIECE_NONE],
     side_to_move |-> side_to_move,
     castling_rights |-> castling_rights,
     en_passant |-> en_passant,
     halfmove_clock |-> 0,
     fullmove_number |-> 1,
     history |-> <<>>]

TestBoards ==
    { \* R3K2R w KQ, a black rook on f8 bars castling short
      BoardOf({<<E1, WK>>, <<A1, WR>>, <<H1, WR>>, <<E8, BK>>, <<F8, BR>>},
              WHITE, {CASTLE_WHITE_KING, CASTLE_WHITE_QUEEN}, PIECE_NONE),
      \* r3k2r b kq, a white bishop on a3 bars castling short
      BoardOf({<<E8, BK>>, <<A8, BR>>, <<H8, BR>>, <<E1, WK>>, <<16, WB>>},
              BLACK, {CASTLE_BLACK_KING, CASTLE_BLACK_QUEEN}, PIECE_NONE),
      \* Ka5 Pb5 against Rh5 and a pawn on c7, Black to move: after c7c5
      \* the capture b5xc6 en passant uncovers the rook
      BoardOf({<<32, WK>>, <<33, WP>>, <<50, BP>>, <<39, BR>>, <<E8, BK>>},
              BLACK, {}, PIECE_NONE),
      \* after d7d5: e5xd6 en passant, and a pawn on a2
      BoardOf({<<E1, WK>>, <<36, WP>>, <<8, WP>>, <<35, BP>>, <<E8, BK>>},
              WHITE, {}, 43),
      \* a pawn on g7 that promotes on g8 or by taking on h8
      BoardOf({<<E1, WK>>, <<54, WP>>, <<H8, BR>>, <<E8, BK>>},
              WHITE, {}, PIECE_NONE),
      \* a pawn on b2 that promotes on b1 or by taking on a1
      BoardOf({<<E8, BK>>, <<9, BP>>, <<A1, WR>>, <<G1, WK>>},
              BLACK, {}, PIECE_NONE),
      \* check by the knight on d3, the bishop on e2 pinned by the rook on e8
      BoardOf({<<E1, WK>>, <<12, WB>>, <<E8, BR>>, <<19, BN>>, <<G8, BK>>},
              WHITE, {}, PIECE_NONE),
      \* check by the pawn on d5, which the pawn on c4 can take
      BoardOf({<<28, WK>>, <<26, WP>>, <<35, BP>>, <<H8, BK>>},
              WHITE, {}, PIECE_NONE),
      \* queens and knights
      BoardOf({<<E1, WK>>, <<D1, WQ>>, <<G1, WN>>, <<E8, BK>>, <<D8, BQ>>,
               <<B8, BN>>},
              WHITE, {}, PIECE_NONE),
      \* RN2K2R w KQ: the knight on b1 stands between king and rook
      BoardOf({<<E1, WK>>, <<A1, WR>>, <<H1, WR>>, <<B1, WN>>, <<E8, BK>>},
              WHITE, {CASTLE_WHITE_KING, CASTLE_WHITE_QUEEN}, PIECE_NONE),
      \* r3k2r b kq: the rook on b1 attacks b8, the pawn on g7 attacks f8
      BoardOf({<<E8, BK>>, <<A8, BR>>, <<H8, BR>>, <<B1, WR>>, <<54, WP>>,
               <<E1, WK>>},
              BLACK, {CASTLE_BLACK_KING, CASTLE_BLACK_QUEEN}, PIECE_NONE),
      \* R3K2R w KQ, the king in check from the rook on e5
      BoardOf({<<E1, WK>>, <<A1, WR>>, <<H1, WR>>, <<36, BR>>, <<H8, BK>>},
              WHITE, {CASTLE_WHITE_KING, CASTLE_WHITE_QUEEN}, PIECE_NONE),
      \* R3K2R w KQ, the bishop on e3 attacks c1 and g1
      BoardOf({<<E1, WK>>, <<A1, WR>>, <<H1, WR>>, <<20, BB>>, <<E8, BK>>},
              WHITE, {CASTLE_WHITE_KING, CASTLE_WHITE_QUEEN}, PIECE_NONE) }

\* variant: a move that leaves the king attacked is dropped before unmake_move
LegalityTest_SkipsIllegal(b, side) ==
    IF InCheck(b, side)
    THEN [illegal |-> TRUE, board |-> b, unmakes |-> 0]
    ELSE [illegal |-> FALSE, board |-> unmake_move(b), unmakes |-> 1]

\* lines 458-459: in_check on the board with the move made, then unmake_move
LegalityTest(b, side) ==
    [illegal |-> InCheck(b, side), board |-> unmake_move(b), unmakes |-> 1]

idle == <<now, engine, args, locals, stack, ret, outcome, snapshots,
          iterations, completed, aborted, emits, ws, hm, calls, work>>

MgInit ==
    /\ board \in TestBoards
    /\ pc = "position"
    /\ now = 0
    /\ nodes = 0 /\ cutoffs = 0 /\ deadline = 0 /\ start = 0
    /\ args = NoArgs
    /\ root_eval = None /\ throttler = None /\ best_result = None /\ depth = 0
    /\ stack = <<>> /\ ret = None
    /\ outcome = [kind |-> "none"]
    /\ snapshots = <<>> /\ iterations = <<>>
    /\ entry = None /\ completed = <<>> /\ aborted = ""
    /\ makes = 0 /\ unmakes = 0 /\ emits = 0
    /\ NoConnection
    /\ NoGeneration
    /\ NoHeatmap
    /\ NoCalls

\* evaluate_detailed(board), evaluation.py lines 410-422
Evaluate ==
    /\ pc = "position"
    /\ report' = Some(_evaluate(board))
    /\ pc' = "evaluated"
    /\ UNCHANGED <<board, entry, makes, unmakes, pseudo, idx, legal_moves,
                   ordered, plies, idle>>

\* generate_legal_moves, lines 452-455
GenerateBegin ==
    /\ pc = "evaluated"
    /\ pseudo' = generate_pseudo_legal_moves(board)
    /\ idx' = 1
    /\ legal_moves' = <<>>
    /\ entry' = Some(board)
    /\ makes' = 0 /\ unmakes' = 0
    /\ pc' = "filter"
    /\ UNCHANGED <<board, ordered, report, plies, idle>>

\* line 456
FilterMake ==
    /\ pc = "filter"
    /\ idx <= Len(pseudo)
    /\ board' = make_move(board, pseudo[idx])
    /\ makes' = makes + 1
    /\ pc' = "made"
    /\ UNCHANGED <<entry, unmakes, pseudo, idx, legal_moves, ordered, report,
                   plies, idle>>

\* lines 458-461
FilterTest ==
    /\ pc = "made"
    /\ LET test == LegalityTest(board, entry[1].side_to_move) IN
       /\ board' = test.board
       /\ unmakes' = unmakes + test.unmakes
       /\ legal_moves' = IF test.illegal THEN legal_moves
                         ELSE Append(legal_moves, pseudo[idx])
    /\ idx' = idx + 1
    /\ pc' = "filter"
    /\ UNCHANGED <<entry, makes, pseudo, ordered, report, plies, idle>>

\* line 463
FilterReturn ==
    /\ pc = "filter"
    /\ idx > Len(pseudo)
    /\ pc' = "generated"
    /\ UNCHANGED <<board, entry, makes, unmakes, pseudo, idx, legal_moves,
                   ordered, report, plies, idle>>

\* search.py lines 151 and 216: the legal moves are ordered
Order ==
    /\ pc = "generated"
    /\ ordered' = OrderMoves(legal_moves)
    /\ pc' = "ordered"
    /\ UNCHANGED <<board, entry, makes, unmakes, pseudo, idx, legal_moves,
                   report, plies, idle>>

\* one of the legal moves is played, as main.py line 107 does
PlayMove ==
    /\ pc = "ordered"
    /\ plies < MaxPlies
    /\ \E i \in 1 .. Len(legal_moves) :
          board' = make_move(board, legal_moves[i])
    /\ plies' = plies + 1
    /\ pc' = "position"
    /\ pseudo' = <<>> /\ idx' = 0 /\ legal_moves' = <<>> /\ ordered' = <<>>
    /\ report' = None
    /\ entry' = None /\ makes' = 0 /\ unmakes' = 0
    /\ UNCHANGED idle

MgNext ==
    \/ Evaluate
    \/ GenerateBegin
    \/ FilterMake
    \/ FilterTest
    \/ FilterReturn
    \/ Order
    \/ PlayMove

SpecBoard == MgInit /\ [][MgNext]_vars

(***************************************************************************)
(* The search overlay of the heatmap, search.py lines 260-290.  A dict is  *)
(* a function from its keys, a string a sequence of characters.  The       *)
(* inputs are a static heatmap of a test position, the candidates of a     *)
(* root search in the order searched, and a principal variation.           *)
(***************************************************************************)
\* Move.uci(): the names of the two squares, then the promotion letter
UciOf(from_sq, to_sq, promo) == square_name(from_sq) \o square_name(to_sq) \o promo

\* s[a:b] of Python for 0 <= a <= b
Slice(s, a, b) == SubSeq(s, a + 1, IF b <= Len(s) THEN b ELSE Len(s))

\* heatmap[key] = heatmap.get(key, 0) + amount
Bump(heatmap, key, amount) ==
    [k \in DOMAIN heatmap \cup {key} |->
        IF k = key THEN GetOr0(heatmap, key) + amount ELSE heatmap[k]]

\* variant: the weight of a late PV move is not raised to 1
PvWeight_NoFloor(i) == 5 - i

\* line 267
PvWeight(i) == Max(1, 5 - i)

\* lines 276, 277
OriginWeight(i) == Max(1, 3 - i)
DestinationWeight(i) == Max(1, 4 - i)

\* lines 263-267, from index i of enumerate(pv[:8])
RECURSIVE PvHeat(_, _, _)
PvHeat(heatmap, line, i) ==
    IF i >= Len(line) THEN heatmap
    ELSE LET move == line[i + 1] IN
         IF Len(move) < 4 THEN PvHeat(heatmap, line, i + 1)
         ELSE PvHeat(Bump(heatmap, Slice(move, 2, 4), PvWeight(i)), line, i + 1)

\* line 269: sorted(candidate_moves.items(), key=eval, reverse=True)
RankCandidates(candidate_moves) ==
    LET keyed == [i \in 1 .. Len(candidate_moves) |->
                     [k |-> candidate_moves[i][2], v |-> candidate_moves[i]]]
        srt == SortDescKeyed(keyed)
    IN  [i \in 1 .. Len(srt) |-> srt[i].v]

\* lines 270-277, from index i of enumerate(ranked[:10])
RECURSIVE CandidateHeat(_, _, _)
CandidateHeat(heatmap, ranked, i) ==
    IF i >= Len(ranked) THEN heatmap
    ELSE LET move == ranked[i + 1][1] IN
         IF Len(move) < 4 THEN CandidateHeat(heatmap, ranked, i + 1)
         ELSE CandidateHeat(
                  Bump(Bump(heatmap, Slice(move, 0, 2), OriginWeight(i)),
                       Slice(move, 2, 4), DestinationWeight(i)),
                  ranked, i + 1)

_build_heatmap(candidate_moves, pv) ==
    CandidateHeat(PvHeat(<<>>, Slice(pv, 0, 8), 0),
                  Slice(RankCandidates(candidate_moves), 0, 10), 0)

\* lines 286-290: the search heatmap is added onto a copy of the static one
MergeHeatmap(static_heatmap, search_heatmap) ==
    [square \in DOMAIN static_heatmap \cup DOMAIN search_heatmap |->
        GetOr0(static_heatmap, square) + GetOr0(search_heatmap, square)]

ComposeHeatmap(static_heatmap, candidate_moves, pv) ==
    MergeHeatmap(static_heatmap, _build_heatmap(candidate_moves, pv))

\* the squares the moves of the inputs run between: e2, e4, d5, g7, g8
HeatSquares == <<12, 28, 35, 54, 62>>

\* the k-th of twenty moves between these squares; g7g8 is a promotion
HeatFrom(k) == HeatSquares[(k % 5) + 1]
HeatTo(k) == HeatSquares[(((k % 5) + 1 + ((k \div 5) % 4)) % 5) + 1]
HeatMove(k) ==
    UciOf(HeatFrom(k), HeatTo(k),
          IF HeatFrom(k) = 54 /\ HeatTo(k) = 62 THEN <<"q">> ELSE <<>>)

\* the scores of the candidates, in the order searched: rising, falling,
\* all equal, or mixed with ties
ScorePatterns == 1 .. 4
PatternScore(pattern, k) ==
    CASE pattern = 1 -> 10 * k
      [] pattern = 2 -> -(10 * k)
      [] pattern = 3 -> 0
      [] pattern = 4 -> 25 * (k % 3)

CandidateInputs ==
    { [k \in 1 .. n |-> CandidateScore(HeatMove(k - 1), PatternScore(pattern, k))] :
        n \in 0 .. MaxCandidates, pattern \in ScorePatterns }

\* a line that repeats one move, walks through the moves, or jumps
PvStrides == {0, 1, 7}
PvInputs ==
    { [j \in 1 .. n |-> HeatMove((3 + j * stride) % 20)] :
        n \in 0 .. MaxPv, stride \in PvStrides }

\* the static heatmaps of the test positions in which Black may castle or
\* which have an en-passant target
StaticInputs ==
    { _pressure_heatmap(b) :
        b \in {t \in TestBoards :
                  \/ t.side_to_move = BLACK /\ t.castling_rights # {}
                  \/ t.en_passant # PIECE_NONE} }

HeatmapInit ==
    /\ SearchIdle
    /\ pc = "inputs"
    /\ NoConnection
    /\ NoGeneration
    /\ NoCalls
    /\ static_input \in StaticInputs
    /\ candidates_input \in CandidateInputs
    /\ pv_input \in PvInputs
    /\ heatmap_out = None

still == <<board, now, engine, args, locals, stack, ret, outcome, snapshots,
           iterations, entry, completed, aborted, makes, unmakes, emits, ws,
           mg, calls, work>>

\* _search_root, lines 181 and 195: the heatmap of a progress snapshot
ProgressHeatmap ==
    /\ pc = "inputs"
    /\ LET candidate_moves == CandidateMoves(SortCandidates(candidates_input)) IN
       heatmap_out' = Some(ComposeHeatmap(static_input, candidate_moves, pv_input))
    /\ pc' = "progress"
    /\ UNCHANGED <<static_input, candidates_input, pv_input, still>>

\* _search_root, line 201, and search, lines 105 and 122: the heatmap of
\* the result of an iteration
IterationHeatmap ==
    /\ pc = "inputs"
    /\ LET candidates == SortCandidates(candidates_input)
           candidate_moves == CandidateMoves(candidates) IN
       heatmap_out' = Some(ComposeHeatmap(static_input, candidate_moves, pv_input))
    /\ pc' = "iteration"
    /\ UNCHANGED <<static_input, candidates_input, pv_input, still>>

HeatmapNext ==
    \/ ProgressHeatmap
    \/ IterationHeatmap

SpecHeatmap == HeatmapInit /\ [][HeatmapNext]_vars

(***************************************************************************)
(* Properties.                                                             *)
(***************************************************************************)
Result == outcome.value
EntryBoard == entry[1].board
RootMoves == generate_legal_moves(EntryBoard)
Last(q) == q[Len(q)]

\* C1: when search returns, every make_move of the search has been matched
\* by an unmake_move and the board equals the board at entry, also when
\* the deadline was hit inside _search_root or _negamax.
C1_BoardRestoredOnReturn ==
    pc = "done" => (board = EntryBoard /\ makes = unmakes)

\* C2: if the deadline is reached during iteration d+1 after iterations
\* 1..d (d >= 1) completed, search returns normally and its result has
\* depth d and the score, best_move, pv, candidates, nodes and cutoffs of
\* iteration d.
C2_TimeoutReturnsLastCompleted ==
    (pc = "done" /\ aborted # "" /\ Len(completed) >= 1) =>
        LET d == Len(completed)
            c == completed[d] IN
        /\ outcome.kind = "return"
        /\ c.depth = d
        /\ Result.depth = d
        /\ Result.score = c.score
        /\ Result.best_move = c.best_move
        /\ Result.pv = c.pv
        /\ Result.candidates = c.candidates
        /\ Result.current_move = c.current_move
        /\ Result.nodes = c.nodes
        /\ Result.cutoffs = c.cutoffs

\* an iteration was aborted inside _negamax after work that the result of
\* the last completed iteration does not show
C2_Witness ==
    /\ pc = "done" /\ aborted = "negamax" /\ Len(completed) >= 1
    /\ nodes > Result.nodes

\* C3: if the deadline is reached before iteration 1 completes, which is
\* always the case when time_limit_ms <= 0, search returns normally with
\* the initial result: no best move, depth 0, score 0, empty pv and
\* candidates, nodes 0, and the static detail of the root position.
C3_TimeoutBeforeFirstIteration ==
    /\ (pc = "done" /\ args.time_limit_ms <= 0) => Len(completed) = 0
    /\ (pc = "done" /\ Len(completed) = 0) =>
          /\ outcome.kind = "return"
          /\ Result.best_move = None
          /\ Result.depth = 0
          /\ Result.score = 0
          /\ Result.pv = <<>>
          /\ Result.candidates = <<>>
          /\ Result.nodes = 0
          /\ Result.piece_values = evaluate_detailed(EntryBoard).piece_values
          /\ Result.piece_breakdown = evaluate_detailed(EntryBoard).piece_breakdown
          /\ Result.heatmap = evaluate_detailed(EntryBoard).heatmap

\* the first iteration was aborted inside _negamax, after nodes were counted
C3_Witness ==
    /\ pc = "done" /\ Len(completed) = 0 /\ aborted = "negamax" /\ nodes > 0

\* C4: search with max_depth < 1 raises ValueError and does nothing else:
\* the engine fields and the board are as at entry and no callback was
\* invoked.
C4_InvalidDepthRejected ==
    (pc # "idle" /\ args.max_depth < 1) =>
        /\ pc = "raised"
        /\ outcome.kind = "ValueError"
        /\ engine = entry[1].engine
        /\ board = EntryBoard
        /\ snapshots = <<>>
        /\ iterations = <<>>

C4_Witness ==
    pc = "raised" /\ args.max_depth < 1 /\ args.on_iteration /\ args.on_snapshot

\* C5: when the deadline is never reached, search completes exactly the
\* iterations 1..max_depth in this order and the result has depth
\* max_depth, also when the root position has no legal moves.
C5_AllIterationsWithoutTimeout ==
    (pc = "done" /\ aborted = "") =>
        /\ Len(completed) = args.max_depth
        /\ \A i \in 1 .. Len(completed) : completed[i].depth = i
        /\ Result.depth = args.max_depth

C5_Witness ==
    /\ pc = "done" /\ aborted = "" /\ args.max_depth >= 2
    /\ RootMoves # <<>>

\* C6: a search that completes at least one iteration on a root position
\* with a legal move returns a best_move that is one of the legal moves of
\* the root position.
C6_BestMoveIsLegal ==
    (pc = "done" /\ Len(completed) >= 1 /\ RootMoves # <<>>) =>
        /\ Result.best_move # None
        /\ \E i \in 1 .. Len(RootMoves) : Result.best_move = Some(RootMoves[i])

\* three iterations completed on a root whose moves all allow a forced mate
C6_Witness ==
    /\ pc = "done" /\ Len(completed) >= 3 /\ RootMoves # <<>>
    /\ Result.score < -MATE + 100

\* The frame on top of the stack waits for the node that has just returned
\* ret[1]: the board stands at that node, whose ply is the number of frames
\* left on the stack and whose remaining depth is one less than the
\* waiting frame's.
NodeReturned == pc = "run" /\ Len(ret) = 1 /\ stack # <<>>
ReturnedPly == Len(stack)
ReturnedDepth == Top.depth - 1
NoLegalMoves == generate_legal_moves(board) = <<>>
ExpectedTerminal(ply) == IF Node(board.pos).check THEN -MATE + ply ELSE 0

\* C7 as stated: whenever the side to move has no legal moves, the node's
\* score is -100000 + ply if that side is in check and 0 otherwise; a
\* checkmated root gives score -100000, no best move and an empty pv, a
\* stalemated root score 0.
C7_TerminalScoreAtEveryNode ==
    /\ (NodeReturned /\ NoLegalMoves) => ret[1].score = ExpectedTerminal(ReturnedPly)
    /\ (pc = "iter_done" /\ NoLegalMoves) =>
          /\ ret[1].score = ExpectedTerminal(0)
          /\ ret[1].best_move = None
          /\ ret[1].pv = <<>>

\* C7 amended: a node searched with remaining depth >= 1 (the root always
\* is) that has no legal moves scores -100000 + ply if the side to move is
\* in check and 0 otherwise; a node reached with remaining depth 0 scores
\* evaluate(board), whether or not it has legal moves.  A search that
\* completes an iteration on a checkmated root returns score -100000, no
\* best move and an empty pv; on a stalemated root, score 0.
C7_TerminalScoreAboveHorizon ==
    /\ (NodeReturned /\ NoLegalMoves /\ ReturnedDepth >= 1) =>
          ret[1].score = ExpectedTerminal(ReturnedPly)
    /\ (NodeReturned /\ ReturnedDepth = 0) => ret[1].score = Node(board.pos).eval
    /\ (pc = "iter_done" /\ NoLegalMoves) =>
          /\ ret[1].score = ExpectedTerminal(0)
          /\ ret[1].best_move = None
          /\ ret[1].pv = <<>>
    /\ (pc = "done" /\ Len(completed) >= 1 /\ RootMoves = <<>>) =>
          /\ Result.score = (IF Node(EntryBoard.pos).check THEN -MATE ELSE 0)
          /\ Result.best_move = None
          /\ Result.pv = <<>>

\* a checkmated node below the root was searched with remaining depth >= 1
C7_Witness ==
    /\ NodeReturned /\ NoLegalMoves /\ ReturnedDepth >= 1
    /\ Node(board.pos).check /\ ReturnedPly >= 1

\* C8 as stated: with an on_snapshot callback, the last snapshot delivered
\* has the depth of the returned result.
C8_LastSnapshotHasResultDepth ==
    (pc = "done" /\ args.on_snapshot /\ snapshots # <<>>) =>
        Last(snapshots).s.depth = Result.depth

\* C8 amended: with an on_snapshot callback, the last snapshot delivered
\* has the depth of the returned result when no iteration was aborted by
\* the deadline, and it is then the forced snapshot of the last iteration;
\* when an iteration was aborted, the last snapshot has either the depth of
\* the result or, being a progress snapshot of the aborted iteration, that
\* depth plus one.
C8_LastSnapshotDepth ==
    (pc = "done" /\ args.on_snapshot /\ snapshots # <<>>) =>
        LET last == Last(snapshots) IN
        /\ aborted = "" => (last.s.depth = Result.depth /\ last.force)
        /\ last.s.depth \in {Result.depth, Result.depth + 1}
        /\ last.s.depth = Result.depth + 1 => (aborted # "" /\ ~last.force)

\* all iterations completed, progress snapshots were delivered as well
C8_Witness ==
    /\ pc = "done" /\ args.on_snapshot /\ aborted = "" /\ Result.depth >= 2
    /\ \E i \in 1 .. Len(snapshots) : ~snapshots[i].force

\* C9: with an on_snapshot callback, the delivered snapshots, progress and
\* forced ones interleaved, have non-decreasing elapsed_ms, depth and nodes.
C9_SnapshotsMonotone ==
    pc # "throttle" =>
        \A i \in 1 .. Len(snapshots) - 1 :
            /\ snapshots[i].s.elapsed_ms <= snapshots[i + 1].s.elapsed_ms
            /\ snapshots[i].s.depth <= snapshots[i + 1].s.depth
            /\ snapshots[i].s.nodes <= snapshots[i + 1].s.nodes

\* a forced snapshot was followed by a progress snapshot of the next
\* iteration, later and with more nodes
C9_Witness ==
    \E i \in 1 .. Len(snapshots) - 1 :
        /\ snapshots[i].force /\ ~snapshots[i + 1].force
        /\ snapshots[i].s.elapsed_ms < snapshots[i + 1].s.elapsed_ms
        /\ snapshots[i].s.nodes < snapshots[i + 1].s.nodes

\* the indices of the forced snapshots of depth d that were delivered
ForcedAt(d) == {i \in 1 .. Len(snapshots) : snapshots[i].force /\ snapshots[i].s.depth = d}
\* the indices of the progress snapshots of depth d that were delivered
ProgressAt(d) == {i \in 1 .. Len(snapshots) : ~snapshots[i].force /\ snapshots[i].s.depth = d}

\* C11: with an on_snapshot callback, every completed iteration d delivers
\* exactly one forced snapshot of depth d, whatever the interval and however
\* recently a progress snapshot was delivered; forced snapshots exist for
\* completed iterations only, so in the end for exactly 1 .. result.depth.
C11_OneForcedSnapshotPerIteration ==
    (pc # "throttle" /\ args.on_snapshot) =>
        /\ \A d \in 1 .. Len(completed) : Cardinality(ForcedAt(d)) = 1
        /\ \A i \in 1 .. Len(snapshots) :
              snapshots[i].force => snapshots[i].s.depth \in 1 .. Len(completed)
        /\ pc = "done" => Result.depth = Len(completed)

\* two iterations completed under a positive interval; in the first one a
\* progress snapshot was suppressed, and the forced snapshot of the second
\* followed a delivered progress snapshot at the same clock reading
C11_Witness ==
    /\ pc = "done" /\ args.on_snapshot /\ args.snapshot_interval_ms = MaxInterval
    /\ Result.depth >= 2
    /\ Cardinality(ProgressAt(1)) < Len(RootMoves)
    /\ \E i \in 2 .. Len(snapshots) :
          /\ snapshots[i].force /\ ~snapshots[i - 1].force
          /\ snapshots[i].s.elapsed_ms = snapshots[i - 1].s.elapsed_ms

(***************************************************************************)
(* The throttle on its own: snapshots[i].s.at is the time of the i-th      *)
(* callback invocation.                                                    *)
(***************************************************************************)
EffectiveInterval == IF args.snapshot_interval_ms >= 1 THEN args.snapshot_interval_ms ELSE 1
CeilDiv(a, b) == (a + b - 1) \div b
\* the non-forced callback invocations in the window [a, a + w)
NonForcedIn(a, w) ==
    {i \in 1 .. Len(snapshots) :
        ~snapshots[i].force /\ a <= snapshots[i].s.at /\ snapshots[i].s.at < a + w}

\* C10: with a callback and T = max(1, interval_ms), a non-forced emit
\* invokes the callback only if at least T has elapsed since the previous
\* callback invocation, forced or not; so a window [a, a + W) holds at most
\* ceil(W / T) invocations caused by non-forced emits.
C10_ThrottleRate ==
    pc = "throttle" =>
        /\ \A i \in 2 .. Len(snapshots) :
              ~snapshots[i].force =>
                  snapshots[i].s.at - snapshots[i - 1].s.at >= EffectiveInterval
        /\ \A a \in 0 .. MaxClock, w \in 0 .. MaxClock + 1 :
              Cardinality(NonForcedIn(a, w)) <= CeilDiv(w, EffectiveInterval)

\* a non-forced emit was suppressed, and non-forced as well as forced ones
\* went through
C10_Witness ==
    /\ pc = "throttle" /\ emits > Len(snapshots)
    /\ \E i, j \in 2 .. Len(snapshots) : snapshots[i].force /\ ~snapshots[j].force
(***************************************************************************)
(* The websocket route: sent holds the messages of the request being       *)
(* served, snapshots what its search handed to on_snapshot, in order.      *)
(***************************************************************************)
Terminal(m) == m.type \in {"complete", "error"}
RequestServed == served > 0 /\ pc \in {"receive", "closed"}

\* C12: the messages sent for a request are the snapshots in the order the
\* search produced them, then exactly one terminal message, complete or
\* error; nothing follows the terminal message, and once the request is
\* served all of its snapshots and its terminal message have been sent.
C12_SnapshotsInOrderThenOneTerminal ==
    (served > 0 /\ pc # "crashed") =>
        /\ \A i \in 1 .. Len(sent) :
              IF Terminal(sent[i])
              THEN /\ i = Len(sent) /\ i = Len(snapshots) + 1
                   /\ thread = "finished"
                   /\ sent[i].type = (IF outcome.kind = "return"
                                      THEN "complete" ELSE "error")
              ELSE /\ i <= Len(snapshots)
                   /\ sent[i].type = "snapshot"
                   /\ sent[i].body = snapshots[i]
        /\ RequestServed =>
              /\ Len(sent) = Len(snapshots) + 1
              /\ Terminal(Last(sent))
              /\ ready = <<>> /\ event_queue = <<>>

\* a second request was served with two snapshots and then complete
C12_Witness ==
    /\ RequestServed /\ served = 2
    /\ Len(snapshots) = 2 /\ Len(sent) = 3 /\ Last(sent).type = "complete"

\* a request whose options or FEN the route cannot use
InvalidConfiguration(p) ==
    \/ p.fen # Absent /\ p.fen # JStr(START_FEN)
    \/ p.max_depth \in {JInt(0), JStr("0"), JStr("deep")}
    \/ p.time_limit_ms = JStr("soon")
    \/ p.snapshot_interval_ms = JStr("often")

\* C13: a request with invalid configuration (max_depth < 1, a malformed
\* FEN, a non-integer option) gets exactly one error message and the
\* handler stays on the connection, ready to receive the next request.
C13_InvalidRequestGetsOneError ==
    (served > 0 /\ InvalidConfiguration(payload)) =>
        /\ pc # "crashed"
        /\ \A i \in 1 .. Len(sent) : sent[i].type = "error" /\ i = 1
        /\ pc = "receive" => Len(sent) = 1
(***************************************************************************)
(* Boards of pieces.  Attacks are restated here from the rules of chess,   *)
(* piece by piece from the square of the attacker, without the tables.     *)
(***************************************************************************)
Abs(x) == IF x < 0 THEN -x ELSE x
Sign(x) == IF x < 0 THEN -1 ELSE IF x > 0 THEN 1 ELSE 0

\* does the piece on from_sq attack target on board b
Attacks(b, from_sq, target) ==
    LET piece == b.squares[from_sq]
        df == (target % 8) - (from_sq % 8)
        dr == (target \div 8) - (from_sq \div 8)
        clear == \A k \in 1 .. (Max(Abs(df), Abs(dr)) - 1) :
                    b.squares[from_sq + k * (8 * Sign(dr) + Sign(df))] = PIECE_NONE
        straight == (df = 0) # (dr = 0)
        diagonal == df # 0 /\ Abs(df) = Abs(dr)
    IN  CASE piece = WP -> dr = 1 /\ Abs(df) = 1
          [] piece = BP -> dr = -1 /\ Abs(df) = 1
          [] piece \in {WN, BN} -> {Abs(df), Abs(dr)} = {1, 2}
          [] piece \in {WK, BK} -> Max(Abs(df), Abs(dr)) = 1
          [] piece \in {WB, BB} -> diagonal /\ clear
          [] piece \in {WR, BR} -> straight /\ clear
          [] piece \in {WQ, BQ} -> (straight \/ diagonal) /\ clear
          [] OTHER -> FALSE

PiecesOf(side) == IF side = WHITE THEN WP .. WK ELSE BP .. BK

\* the king of side stands attacked on board b
KingAttacked(b, side) ==
    \E ksq \in Squares, from_sq \in Squares :
        /\ b.squares[ksq] = (IF side = WHITE THEN WK ELSE BK)
        /\ b.squares[from_sq] \in PiecesOf(1 - side)
        /\ Attacks(b, from_sq, ksq)

OneKingPerSide(b) ==
    /\ Cardinality({sq \in Squares : b.squares[sq] = WK}) = 1
    /\ Cardinality({sq \in Squares : b.squares[sq] = BK}) = 1

Generated == pc \in {"generated", "ordered"}

\* C14: in a position with one king per side generate_legal_moves returns
\* exactly the pseudo-legal moves, in their order, after which the king of
\* the side that moved is not attacked.
C14_LegalMovesAreTheSafePseudoLegal ==
    (Generated /\ OneKingPerSide(board)) =>
        legal_moves = SelectSeq(pseudo,
                          LAMBDA m : ~KingAttacked(make_move(board, m),
                                                   board.side_to_move))

\* the en-passant capture that uncovers the rook was discarded, other moves
\* were kept
C14_Witness ==
    /\ Generated /\ OneKingPerSide(board) /\ legal_moves # <<>>
    /\ \E i \in 1 .. Len(pseudo) :
          /\ pseudo[i].is_en_passant
          /\ \A j \in 1 .. Len(legal_moves) : legal_moves[j] # pseudo[i]

\* the board with the ranks flipped and the colours swapped
FlipRank(sq) == (sq % 8) + 8 * (7 - (sq \div 8))
FlipPiece(piece) ==
    IF piece = PIECE_NONE THEN PIECE_NONE
    ELSE IF piece < BP THEN piece + 6 ELSE piece - 6
FlipRight(right) ==
    CASE right = CASTLE_WHITE_KING -> CASTLE_BLACK_KING
      [] right = CASTLE_WHITE_QUEEN -> CASTLE_BLACK_QUEEN
      [] right = CASTLE_BLACK_KING -> CASTLE_WHITE_KING
      [] right = CASTLE_BLACK_QUEEN -> CASTLE_WHITE_QUEEN
Twin(b) ==
    [squares |-> [sq \in Squares |-> FlipPiece(b.squares[FlipRank(sq)])],
     side_to_move |-> 1 - b.side_to_move,
     castling_rights |-> {FlipRight(r) : r \in b.castling_rights},
     en_passant |-> IF b.en_passant = PIECE_NONE THEN PIECE_NONE
                    ELSE FlipRank(b.en_passant),
     halfmove_clock |-> b.halfmove_clock,
     fullmove_number |-> b.fullmove_number,
     history |-> <<>>]

\* C15: a position and its colour-mirrored twin have the same evaluation,
\* and each side's components are those of the other side in the twin.
C15_EvaluationIsColourSymmetric ==
    pc = "evaluated" =>
        LET twin == _evaluate(Twin(board)) IN
        /\ twin.score_cp = report[1].score_cp
        /\ twin.components.white = report[1].components.black
        /\ twin.components.black = report[1].components.white

\* a position with pawns and pieces whose sides are evaluated differently
\* in every component
C15_Witness ==
    /\ pc = "evaluated"
    /\ report[1].score_cp # 0
    /\ \E sq \in Squares : board.squares[sq] \in {WP, BP}
    /\ LET net == report[1].components.net IN
       /\ net.material # 0 /\ net.pst # 0 /\ net.mobility # 0
       /\ net.king_safety # 0 /\ net.pawn_structure # 0

RECURSIVE SumOver(_, _)
SumOver(f, S) ==
    IF S = {} THEN 0
    ELSE LET x == CHOOSE y \in S : TRUE IN f[x] + SumOver(f, S \ {x})

ComponentSum(c) ==
    c.material + c.pst + c.mobility + c.pawn_structure + c.king_safety

\* C16: in the report of evaluate_detailed the signed totals of the piece
\* breakdown add up to white_minus_black, which is the sum of White's
\* component totals minus the sum of Black's, and score_cp is that value,
\* negated exactly when Black is to move.
C16_BreakdownAddsUp ==
    pc = "evaluated" =>
        LET r == report[1]
            signed == [name \in DOMAIN r.piece_breakdown |->
                          r.piece_breakdown[name].signed_total] IN
        /\ SumOver(signed, DOMAIN signed) = r.white_minus_black
        /\ r.white_minus_black
             = ComponentSum(r.components.white) - ComponentSum(r.components.black)
        /\ r.score_cp = (IF board.side_to_move = BLACK THEN -r.white_minus_black
                         ELSE r.white_minus_black)
        /\ DOMAIN r.piece_breakdown
             = {square_name(sq) : sq \in {s \in Squares : board.squares[s] # PIECE_NONE}}

\* Black to move, pieces of both sides with non-zero totals, a balance
\* other than zero
C16_Witness ==
    /\ pc = "evaluated" /\ board.side_to_move = BLACK
    /\ report[1].white_minus_black # 0
    /\ ComponentSum(report[1].components.white) # 0
    /\ ComponentSum(report[1].components.black) # 0
    /\ Cardinality(DOMAIN report[1].piece_breakdown) >= 5

\* C18: generate_legal_moves calls unmake_move once for every pseudo-legal
\* move it makes, kept or discarded, so between two moves and when it
\* returns the board, history included, is the board it was called with.
C18_GenerationRestoresBoard ==
    /\ pc = "filter" => (board = entry[1] /\ unmakes = makes /\ makes = idx - 1)
    /\ pc = "made" => (unmakes = makes - 1 /\ makes = idx)
    /\ Generated => (board = entry[1] /\ unmakes = makes /\ makes = Len(pseudo))

\* moves were kept and moves were discarded, on a board that has a move
\* in its history and an en-passant target
C18_Witness ==
    /\ Generated
    /\ Len(legal_moves) > 0 /\ Len(legal_moves) < Len(pseudo)
    /\ Len(board.history) > 0 /\ board.en_passant # PIECE_NONE
    /\ unmakes = Len(pseudo)

\* the key as C19 states it
StatedKey(move) ==
    (IF move.captured # PIECE_NONE \/ move.is_en_passant THEN CAPTURE_BONUS ELSE 0)
    + (IF move.promotion # PIECE_NONE THEN PROMOTION_BONUS ELSE 0)
    + (IF move.is_castle THEN CASTLE_BONUS ELSE 0)

StatedOrder(moves) ==
    LET keyed == [i \in 1 .. Len(moves) |-> [k |-> StatedKey(moves[i]), v |-> moves[i]]]
        srt == SortDescKeyed(keyed)
    IN  [i \in 1 .. Len(srt) |-> srt[i].v]

\* C19: the moves are searched in descending order of a key that is 10000
\* for a capture, en-passant captures included, plus 8000 for a promotion
\* plus 100 for castling; moves with equal keys keep their generation order.
C19_MovesOrderedByStatedKey ==
    pc = "ordered" => ordered = StatedOrder(legal_moves)

\* the square a two-letter name stands for
SquareNamed(name) == CHOOSE sq \in Squares : square_name(sq) = name
OriginOf(uci) == SquareNamed(SubSeq(uci, 1, 2))
DestinationOf(uci) == SquareNamed(SubSeq(uci, 3, 4))

\* the place of the j-th candidate searched when the candidates are ranked
\* by descending score, equal scores in the order searched (from 0)
RankOf(cands, j) ==
    Cardinality({k \in 1 .. Len(cands) : cands[k].score > cands[j].score})
    + Cardinality({k \in 1 .. j - 1 : cands[k].score = cands[j].score})

\* the overlay on square sq as stated
StatedOverlay(cands, line, sq) ==
    LET first == {i \in 1 .. Len(line) : i - 1 <= 7 /\ DestinationOf(line[i]) = sq}
        top == {j \in 1 .. Len(cands) : RankOf(cands, j) <= 9}
        leaving == {j \in top : OriginOf(cands[j].move) = sq}
        arriving == {j \in top : DestinationOf(cands[j].move) = sq}
    IN  SumOver([i \in first |-> Max(1, 5 - (i - 1))], first)
        + SumOver([j \in leaving |-> Max(1, 3 - RankOf(cands, j))], leaving)
        + SumOver([j \in arriving |-> Max(1, 4 - RankOf(cands, j))], arriving)

\* C20: the heatmap of a snapshot or result is, on every square, the static
\* pressure value plus the overlay: max(1, 5-i) on the destination of the
\* i-th PV move for i = 0..7, and max(1, 3-i) on the origin and max(1, 4-i)
\* on the destination of the i-th candidate by descending score for
\* i = 0..9; later PV moves and candidates add nothing.
C20_HeatmapIsStaticPlusOverlay ==
    heatmap_out # None =>
        /\ DOMAIN heatmap_out[1] \subseteq {square_name(sq) : sq \in Squares}
        /\ \A sq \in Squares :
              GetOr0(heatmap_out[1], square_name(sq))
                  = GetOr0(static_input, square_name(sq))
                    + StatedOverlay(candidates_input, pv_input, sq)

\* a ninth PV move and an eleventh candidate, searched in rising order of
\* score, and a square that the static heatmap, the PV and the candidates
\* all bear on
C20_Witness ==
    /\ heatmap_out # None
    /\ Len(pv_input) = 9 /\ Len(candidates_input) = 11
    /\ candidates_input[1].score < candidates_input[2].score
    /\ \E sq \in Squares :
          /\ GetOr0(static_input, square_name(sq)) # 0
          /\ \E i \in 1 .. 8 : DestinationOf(pv_input[i]) = sq
          /\ \E j \in 1 .. 11 : OriginOf(candidates_input[j].move) = sq
          /\ GetOr0(heatmap_out[1], square_name(sq))
                 # GetOr0(static_input, square_name(sq))

\* C17: on an engine that serves several calls, every call starts from
\* nodes = cutoffs = 0 and from a start and deadline read at its own entry:
\* the counters are those of the nodes and cutoffs of this call, the result
\* carries the counts of this call up to its last completed iteration, and
\* a call is aborted only once its own time limit has run out.
C17_CountersArePerCall ==
    pc \in {"call_root", "run", "iter_done", "return", "done"} =>
        /\ nodes = visited /\ cutoffs = pruned
        /\ start >= entry[1].now
        /\ deadline = start + args.time_limit_ms
        /\ aborted # "" => now >= entry[1].now + args.time_limit_ms
        /\ pc = "done" =>
              IF completed = <<>>
              THEN Result.nodes = 0 /\ Result.cutoffs = 0
              ELSE /\ Result.nodes = Last(completed).visited
                   /\ Result.cutoffs = Last(completed).pruned

\* a later call on an engine that an earlier call left with counted nodes
\* and cutoffs and with a deadline already past: it runs to completion
C17_Witness ==
    /\ calls >= 1 /\ pc = "done"
    /\ entry[1].engine[1] > 0 /\ entry[1].engine[2] > 0
    /\ entry[1].engine[3] <= entry[1].now
    /\ aborted = "" /\ Len(completed) = 2
    /\ Result.nodes > 0 /\ Result.cutoffs > 0

\* the squares strictly between two squares of one rank, and from the one
\* to the other
Between(a, c) == {sq \in Squares : (a < sq /\ sq < c) \/ (c < sq /\ sq < a)}
FromTo(a, c) == Between(a, c) \cup {a, c}

\* the four castlings: right, side, king's home, rook's home, king's landing
Castlings ==
    { <<CASTLE_WHITE_KING, WHITE, E1, H1, G1>>, <<CASTLE_WHITE_QUEEN, WHITE, E1, A1, C1>>,
      <<CASTLE_BLACK_KING, BLACK, E8, H8, G8>>, <<CASTLE_BLACK_QUEEN, BLACK, E8, A8, C8>> }

AttackedBy(b, side, target) ==
    \E from_sq \in Squares :
        b.squares[from_sq] \in PiecesOf(side) /\ Attacks(b, from_sq, target)

\* the conditions of castling c on board b as stated
MayCastle(b, c) ==
    /\ c[2] = b.side_to_move
    /\ c[1] \in b.castling_rights
    /\ b.squares[c[3]] = (IF c[2] = WHITE THEN WK ELSE BK)
    /\ b.squares[c[4]] = (IF c[2] = WHITE THEN WR ELSE BR)
    /\ \A sq \in Between(c[3], c[4]) : b.squares[sq] = PIECE_NONE
    /\ \A sq \in FromTo(c[3], c[5]) : ~AttackedBy(b, 1 - c[2], sq)

CastlesIn(moves) == {i \in 1 .. Len(moves) : moves[i].is_castle}

MaxOf(S) == CHOOSE x \in S : \A y \in S : y <= x

\* the step delivers a progress snapshot
ProgressDelivered ==
    /\ Len(snapshots') = Len(snapshots) + 1
    /\ ~snapshots'[Len(snapshots')].force

\* C22: the progress snapshot built after the k-th root move of an
\* iteration carries as eval_cp the largest of the scores of the k root
\* moves searched so far, as current_move the k-th move, one candidate_moves
\* entry for each of the k moves in descending order of score, and a pv that
\* starts with a move whose score is that largest one.
C22_ProgressSnapshotReflectsRootMoves ==
    [][ProgressDelivered =>
          LET f == Top
              k == f.i
              scores == [j \in 1 .. k |-> IF j < k THEN f.candidates[j].score
                                          ELSE -(ret[1].score)]
              best == MaxOf({scores[j] : j \in 1 .. k})
              s == snapshots'[Len(snapshots')].s
          IN  /\ f.fn = "root" /\ Len(f.candidates) = k - 1
              /\ s.depth = f.depth
              /\ s.eval_cp = best
              /\ s.current_move = f.moves[k].uci
              /\ Len(s.candidate_moves) = k
              /\ \A j \in 1 .. k :
                    \E i \in 1 .. k : s.candidate_moves[i]
                                          = <<f.moves[j].uci, EvalOf(scores[j])>>
              /\ \A i \in 1 .. k - 1 :
                    s.candidate_moves[i][2] >= s.candidate_moves[i + 1][2]
              /\ s.pv # <<>>
              /\ \E j \in 1 .. k : scores[j] = best /\ s.pv[1] = f.moves[j].uci
      ]_vars

\* a delivered progress snapshot after the second root move, which scored
\* higher than the first: it heads the ranking and the pv
C22_Witness ==
    \E i \in 1 .. Len(snapshots) :
        LET s == snapshots[i].s IN
        /\ ~snapshots[i].force
        /\ Len(s.candidate_moves) = 2
        /\ s.current_move # OrderMoves(RootMoves)[1].uci
        /\ s.pv[1] = s.current_move
        /\ s.candidate_moves[1][1] = s.current_move
        /\ s.candidate_moves[1][2] > s.candidate_moves[2][2]
        /\ s.eval_cp = s.candidate_moves[1][2]

\* plain negamax without pruning: the value, for the side to move, of
\* position pos at ply searched to the remaining depth d, with the leaf
\* evaluation and the terminal scores of the search
RECURSIVE PlainNegamax(_, _, _)
PlainNegamax(pos, d, ply) ==
    IF d = 0 THEN Node(pos).eval
    ELSE IF Node(pos).moves = <<>>
    THEN (IF Node(pos).check THEN -MATE + ply ELSE 0)
    ELSE MaxOf({-PlainNegamax(Node(pos).moves[i].to, d - 1, ply + 1) :
                   i \in 1 .. Len(Node(pos).moves)})

\* C23: the score of every completed root iteration is the value of plain
\* negamax of the root position to the depth of the iteration (values
\* strictly between -100000 and 100000), and on a root with legal moves
\* best_move is a root move whose plain negamax value is that score.
C23_AlphaBetaEqualsPlainNegamax ==
    \A i \in 1 .. Len(completed) :
        LET c == completed[i]
            value == PlainNegamax(EntryBoard.pos, c.depth, 0) IN
        (-MATE < value /\ value < MATE) =>
            /\ c.score = value
            /\ RootMoves # <<>> =>
                  /\ c.best_move # None
                  /\ \E j \in 1 .. Len(RootMoves) :
                        /\ c.best_move = Some(RootMoves[j])
                        /\ -PlainNegamax(RootMoves[j].to, c.depth - 1, 1) = value

\* an iteration of depth 2 or more in which cutoffs were taken and a root
\* move other than the best was reported with a bound, not its plain value
C23_Witness ==
    /\ pc = "done" /\ Len(completed) >= 2 /\ Result.cutoffs > 0
    /\ \E k \in 1 .. Len(Result.candidates), j \in 1 .. Len(RootMoves) :
          /\ Result.candidates[k].move = RootMoves[j].uci
          /\ Result.candidates[k].score
                 # -PlainNegamax(RootMoves[j].to, Result.depth - 1, 1)

\* every move of the line is a legal move of the position reached by the
\* moves before it
RECURSIVE LegalLine(_, _)
LegalLine(pos, line) ==
    \/ line = <<>>
    \/ /\ \E i \in 1 .. Len(Node(pos).moves) : Node(pos).moves[i] = line[1]
       /\ LegalLine(line[1].to, Tail(line))

\* the results search hands out: those passed to on_iteration and the one
\* it returns
ResultsHandedOut ==
    {iterations[i] : i \in 1 .. Len(iterations)}
        \cup (IF pc = "done" /\ outcome.kind = "return" THEN {Result} ELSE {})

\* C24: in every result with depth >= 1 and a best move, pv is not empty,
\* starts with best_move and is no longer than depth, each pv move is legal
\* in the position reached by the pv moves before it, candidates has
\* exactly one entry per legal root move, in non-increasing order of score,
\* and the first candidate's score is the result's score.
C24_ResultIsConsistent ==
    \A r \in ResultsHandedOut :
        (r.depth >= 1 /\ r.best_move # None) =>
            /\ r.pv # <<>>
            /\ Some(r.pv[1]) = r.best_move
            /\ Len(r.pv) <= r.depth
            /\ LegalLine(EntryBoard.pos, r.pv)
            /\ Len(r.candidates) = Len(RootMoves)
            /\ \A j \in 1 .. Len(RootMoves) :
                  Cardinality({k \in 1 .. Len(r.candidates) :
                                  r.candidates[k].move = RootMoves[j].uci}) = 1
            /\ \A k \in 1 .. Len(r.candidates) - 1 :
                  r.candidates[k].score >= r.candidates[k + 1].score
            /\ r.candidates[1].score = r.score

\* a returned result of depth 3 with a pv of three moves, whose best move
\* was not the first root move searched, so that the candidates were
\* reordered
C24_Witness ==
    /\ pc = "done" /\ outcome.kind = "return"
    /\ Result.depth = 3 /\ Result.best_move # None
    /\ Len(Result.pv) = 3
    /\ Len(Result.candidates) >= 2
    /\ Result.candidates[1].move # OrderMoves(RootMoves)[1].uci
    /\ Result.candidates[1].score > Result.candidates[2].score

\* what has been put into event_queue for the request being served, less a
\* sentinel the handler has taken: the messages sent, the one being sent,
\* and the queue
Enqueued ==
    [i \in 1 .. Len(sent) |-> Some(sent[i])]
        \o (IF pc = "send" THEN <<item>> ELSE <<>>) \o event_queue

\* the sentinel comes last and right after a terminal message, and a
\* terminal message is followed by the sentinel until the handler takes it
SentinelFollowsTerminal ==
    \A i \in 1 .. Len(Enqueued) :
        /\ Enqueued[i] = None =>
              /\ i = Len(Enqueued) /\ i > 1
              /\ Terminal(Enqueued[i - 1][1])
        /\ (Enqueued[i] # None /\ Terminal(Enqueued[i][1])) =>
              \/ i + 1 = Len(Enqueued) /\ Enqueued[i + 1] = None
              \/ i = Len(Enqueued) /\ pc \in {"receive", "closed"}

\* the handler is between create_task and the end of "await worker"
SearchStarted == pc \in {"get", "woken", "send", "await_worker"}

\* the handler is back at receive_json with the worker finished and
\* nothing left to deliver
BackAtReceive ==
    /\ pc = "receive" /\ worker = "done"
    /\ event_queue = <<>> /\ ready = <<>>

\* C25: for every request whose search is started the sentinel is put into
\* the queue right after the terminal message, whether the search returned
\* or raised, and the handler eventually leaves the drain loop with the
\* worker finished and waits for the next request: it does not stay
\* suspended on an empty queue.
C25_DrainLoopEnds ==
    /\ []SentinelFollowsTerminal
    /\ SearchStarted ~> BackAtReceive

\* the second request's search raised; its error was sent, the sentinel
\* taken and the handler is waiting for the next request
C25_Witness ==
    /\ BackAtReceive /\ served = 2
    /\ outcome.kind = "ValueError"
    /\ sent # <<>> /\ Last(sent).type = "error"
====
